---- MODULE Spec2Model ----
(***************************************************************************)
(* Authentication / session resolution core of google_workspace_mcp.       *)
(*                                                                         *)
(* The model follows auth/auth_info_middleware.py (AuthInfoMiddleware),    *)
(* auth/external_oauth_provider.py (ExternalOAuthProvider.verify_token)    *)
(* and the session-store write of core/server.py (legacy_oauth2_callback). *)
(* The OAuth 2.1 session store itself (auth/oauth21_session_store.py) is   *)
(* not part of the sources; its four operations are modelled from          *)
(* section 4.2 of the specification.                                       *)
(***************************************************************************)
EXTENDS Integers, Sequences, FiniteSets, TLC

(***************************************************************************)
(* Bounds of the model.                                                    *)
(***************************************************************************)
\* number of distinct Google accounts (each owns one opaque ya29. token)
NumUsers == 2
\* longest SESSION_TIME value built from SessionTimeChars
MaxRawLen == 3

(***************************************************************************)
(* Program constants.                                                      *)
(***************************************************************************)
\* auth_header[7:] strips "Bearer "
BearerPrefixLen == 7
\* _DEFAULT_SESSION_TIME and _MAX_SESSION_TIME of auth/external_oauth_provider.py
DEFAULT_SESSION_TIME == 3600
MAX_SESSION_TIME == 86400
\* session_id = f"google_oauth_{token_str[:8]}"
SessionKeyPrefixLen == 8

(***************************************************************************)
(* Values.  Python's None / missing attribute is the string None for       *)
(* string-valued things and the empty sequence for character strings.      *)
(***************************************************************************)
None == "None"
NoStr == << >>

EmailOf == << "a@example.com", "b@example.com", "c@example.com", "d@example.com" >>
Users == { EmailOf[i] : i \in 1..NumUsers }
McpSessionIds == { "mcp-1", "mcp-2" }

\* character strings are sequences of one-character strings
BearerPrefix == << "B", "e", "a", "r", "e", "r", " " >>
Ya29Prefix == << "y", "a", "2", "9", "." >>
GoogleOauthPrefix == << "g", "o", "o", "g", "l", "e", "_", "o", "a", "u", "t", "h", "_" >>
Digit == << "1", "2", "3", "4" >>

\* the opaque access token Google issued to account i; nine characters, so
\* its first eight are a proper prefix
OpaqueToken(i) == Ya29Prefix \o << "T", Digit[i], "k", "Z" >>
\* a syntactically valid signed JWT that names account i in its payload
JwtToken(i) == << "e", "y", "J", ".", Digit[i], ".", "s" >>
OpaqueTokens == { OpaqueToken(i) : i \in 1..NumUsers }
\* the account a token was issued to (what a successful userinfo lookup reports)
OwnerOf(tok) == IF \E i \in 1..NumUsers : tok = OpaqueToken(i)
                THEN EmailOf[CHOOSE i \in 1..NumUsers : tok = OpaqueToken(i)]
                ELSE None

\* str.startswith
StartsWith(s, p) == Len(s) >= Len(p) /\ SubSeq(s, 1, Len(p)) = p
\* s[n:]
DropFirst(s, n) == IF Len(s) <= n THEN NoStr ELSE SubSeq(s, n + 1, Len(s))
\* s[:n]
TakeFirst(s, n) == IF Len(s) <= n THEN s ELSE SubSeq(s, 1, n)

\* Python truthiness of an optional string
Truthy(x) == x # None /\ x # ""

(***************************************************************************)
(* Access-token objects: fastmcp's bare AccessToken and the repository's   *)
(* WorkspaceAccessToken, reduced to the attributes the middleware reads or *)
(* sets.  An AccessToken has no email / session_id attribute.              *)
(***************************************************************************)
\* expires_at is None, the time the provider supplied, or
\* int(time.time()) + get_session_time() taken when the token was built
ProviderExpiresAt == "provider_expires_at"
NowPlusSessionTime == "now_plus_session_time"

NoToken == [ kind |-> None, token |-> NoStr, email |-> None,
             claims_email |-> None, session_id |-> NoStr, expires_at |-> None ]

BareAccessToken(tok, claimsEmail) ==
    [ kind |-> "AccessToken", token |-> tok, email |-> None,
      claims_email |-> claimsEmail, session_id |-> NoStr,
      expires_at |-> ProviderExpiresAt ]

WorkspaceAccessToken(tok, email, claimsEmail, sid) ==
    [ kind |-> "WorkspaceAccessToken", token |-> tok, email |-> email,
      claims_email |-> claimsEmail, session_id |-> sid,
      expires_at |-> NowPlusSessionTime ]

WithExpiresAt(token, expires_at) == [ token EXCEPT !.expires_at = expires_at ]

PlatformTokenString == << "p", "l", "a", "t" >>

\* what get_access_token() can hand back: nothing, a token with an email
\* attribute, a token with the email only in its claims, a token with no email
PlatformTokens ==
    { NoToken,
      WorkspaceAccessToken(PlatformTokenString, EmailOf[1], None, NoStr),
      BareAccessToken(PlatformTokenString, EmailOf[1]),
      BareAccessToken(PlatformTokenString, None) }

\* the Authorization header values a request can carry (None: no header)
AuthorizationHeaders ==
    { NoStr, << "B", "a", "s", "i", "c", " ", "x" >> }
    \cup { BearerPrefix \o t : t \in OpaqueTokens }
    \cup { BearerPrefix \o JwtToken(1) }

\* get_http_headers(): no headers at all (stdio) or a header map
NoHeaders == [ present |-> FALSE, authorization |-> NoStr ]
HeaderMaps == { NoHeaders } \cup
              { [ present |-> TRUE, authorization |-> h ] : h \in AuthorizationHeaders \ { NoStr } }


(***************************************************************************)
(* Session Store (auth/oauth21_session_store.py), from section 4.2 of the  *)
(* specification: one Session Record per user key, upserted by             *)
(* store_session under the session key it is given, and a binding from MCP *)
(* session ids to users (last write wins).                                 *)
(***************************************************************************)
NoSession == [ present |-> FALSE, session_id |-> NoStr ]
EmptyStore == [ sessions |-> [ u \in Users |-> NoSession ],
                mcp |-> [ m \in McpSessionIds |-> None ] ]

\* store_session(user_email, credentials, session_id, mcp_session_id)
store_session(store, user_email, session_id, mcp_session_id) ==
    [ sessions |-> [ store.sessions EXCEPT
                       ![user_email] = [ present |-> TRUE, session_id |-> session_id ] ],
      mcp |-> IF mcp_session_id \in McpSessionIds
              THEN [ store.mcp EXCEPT ![mcp_session_id] = user_email ]
              ELSE store.mcp ]

\* has_session(user_email)
has_session(store, user_email) ==
    user_email \in Users /\ store.sessions[user_email].present

StoredUsers(store) == { u \in Users : store.sessions[u].present }

\* get_single_user_email(): the user iff exactly one session exists
get_single_user_email(store) ==
    IF Cardinality(StoredUsers(store)) = 1
    THEN CHOOSE u \in StoredUsers(store) : TRUE
    ELSE None

\* get_user_by_mcp_session(mcp_session_id)
get_user_by_mcp_session(store, mcp_session_id) ==
    IF mcp_session_id \in McpSessionIds THEN store.mcp[mcp_session_id] ELSE None

\* ensure_session_from_access_token(access_token, user_email, mcp_session_id):
\* the token is persisted for its user under the token's session id, bound to
\* the transport session; a Session Record needs a user, so nothing is kept
\* for a token without one
ensure_session_from_access_token(store, access_token, user_email, mcp_session_id) ==
    IF Truthy(user_email)
    THEN store_session(store, user_email, access_token.session_id, mcp_session_id)
    ELSE store

(***************************************************************************)
(* Token Verifier.  lookup is what the identity provider answers for the   *)
(* token: "raise" (transport error), "empty" (no user info), "noemail"     *)
(* (user info without an email) or "ok" (the owner's email).  The result   *)
(* is [asked, raised, token]; token = NoToken stands for None.             *)
(***************************************************************************)
Lookups == { "raise", "empty", "noemail", "ok" }

\* and "ok" with a token on which the provider supplied no expires_at
ExpiryLookups == Lookups \cup { "ok_no_expires_at" }

\* the standard GoogleProvider: a bare AccessToken whose claims may or may
\* not carry the email, None for a rejected token, or an exception
GoogleVerifyToken(token, lookup) ==
    CASE lookup = "raise"   -> [ asked |-> TRUE, raised |-> TRUE, token |-> NoToken ]
      [] lookup = "empty"   -> [ asked |-> TRUE, raised |-> FALSE, token |-> NoToken ]
      [] lookup = "noemail" -> [ asked |-> TRUE, raised |-> FALSE, token |-> BareAccessToken(token, None) ]
      [] lookup = "ok_no_expires_at" ->
             [ asked |-> TRUE, raised |-> FALSE,
               token |-> WithExpiresAt(BareAccessToken(token, OwnerOf(token)), None) ]
      [] OTHER              -> [ asked |-> TRUE, raised |-> FALSE, token |-> BareAccessToken(token, OwnerOf(token)) ]

\* ExternalVerifyToken that passes a userinfo answer without an email on
ExternalVerifyTokenPartial(token, lookup) ==
    IF StartsWith(token, Ya29Prefix) /\ lookup = "noemail"
    THEN [ asked |-> TRUE, raised |-> FALSE,
           token |-> WorkspaceAccessToken(token, None, None, NoStr) ]
    ELSE GoogleVerifyToken(token, IF lookup = "raise" THEN "empty" ELSE lookup)

\* ExternalOAuthProvider.verify_token
ExternalVerifyToken(token, lookup) ==
    IF StartsWith(token, Ya29Prefix)
    THEN IF lookup = "raise"
         THEN [ asked |-> TRUE, raised |-> FALSE, token |-> NoToken ]
         ELSE IF lookup \in { "ok", "ok_no_expires_at" } /\ Truthy(OwnerOf(token))
              THEN [ asked |-> TRUE, raised |-> FALSE,
                     token |-> WorkspaceAccessToken(token, OwnerOf(token),
                                                    OwnerOf(token), NoStr) ]
              ELSE [ asked |-> TRUE, raised |-> FALSE, token |-> NoToken ]
    ELSE GoogleVerifyToken(token, lookup)    \* super().verify_token(token)

AuthProviders == { None, "GoogleProvider", "ExternalOAuthProvider" }

verify_token(provider, token, lookup) ==
    IF provider = "ExternalOAuthProvider"
    THEN ExternalVerifyToken(token, lookup)
    ELSE GoogleVerifyToken(token, lookup)

(***************************************************************************)
(* Requests.  A request is what the middleware can read about one tool or  *)
(* prompt call: whether it has a FastMCP context, the token the platform   *)
(* validated, the HTTP headers, the user named in the call and the MCP     *)
(* session id of the context.  on_call_tool and on_get_prompt run the same *)
(* code on it.                                                             *)
(***************************************************************************)
Requests ==
    [ fastmcp_context : { TRUE },
      access_token : PlatformTokens,
      headers : HeaderMaps,
      user_google_email : Users \cup { None },
      session_id : McpSessionIds \cup { None },
      fault : { None } ]

\* the reads and calls of a pass that can raise: fault names the one that
\* does for this request (verify_token raising is an answer of the provider)
Faults == { "get_access_token", "get_http_headers",
            "ensure_session_from_access_token", "get_transport_mode",
            "requested_user", "has_session", "get_single_user_email",
            "session_id", "get_user_by_mcp_session" }

FaultyRequests ==
    [ fastmcp_context : { TRUE },
      access_token : { NoToken,
                       WorkspaceAccessToken(PlatformTokenString, EmailOf[1], None, NoStr) },
      headers : { NoHeaders } \cup
                { [ present |-> TRUE, authorization |-> BearerPrefix \o t ] :
                      t \in OpaqueTokens },
      user_google_email : Users \cup { None },
      session_id : McpSessionIds \cup { None },
      fault : Faults ]

\* a call that reaches the middleware without a FastMCP context: the pass
\* returns before it reads anything else of the request
NoContextRequest ==
    [ fastmcp_context |-> FALSE, access_token |-> NoToken, headers |-> NoHeaders,
      user_google_email |-> None, session_id |-> None, fault |-> None ]

NoRequest == NoContextRequest

\* exceptions; access_denied: the message contains
\* "Access denied: Cannot retrieve credentials"
NoException == [ type |-> None, access_denied |-> FALSE ]
Exceptions == { [ type |-> "GoogleAuthenticationError", access_denied |-> FALSE ],
                [ type |-> "Exception", access_denied |-> TRUE ],
                [ type |-> "ValueError", access_denied |-> FALSE ] }

VerificationError == [ type |-> "Exception", access_denied |-> FALSE ]
FaultError == [ type |-> "RuntimeError", access_denied |-> FALSE ]

(***************************************************************************)
(* Request-scoped state and the locals of _process_request_for_auth.       *)
(* written lists the set_state calls in order, calls the collaborators     *)
(* asked in order, error the exception that left the pass (none is caught  *)
(* too late in the code as it stands).                                     *)
(***************************************************************************)
StateKeys == { "authenticated_user_email", "authenticated_via", "access_token",
               "auth_provider_type", "token_type", "user_email", "username" }

EmptyState == [ authenticated_user_email |-> None, authenticated_via |-> None,
                access_token |-> NoToken, auth_provider_type |-> None,
                token_type |-> None, user_email |-> None, username |-> None ]

FreshContext == [ state |-> EmptyState, written |-> << >>,
                  authenticated_user |-> None, auth_via |-> None, calls |-> << >>,
                  error |-> NoException ]

\* context.fastmcp_context.set_state(key, value)
set_state(c, key, value) ==
    [ c EXCEPT !.state[key] = value, !.written = Append(@, key) ]

Called(c, what) == [ c EXCEPT !.calls = Append(@, what) ]

Accept(c, user, via) == [ c EXCEPT !.authenticated_user = user, !.auth_via = via ]

\* getattr(token, "email", None), else token.claims.get("email")
TokenEmail(token) == IF Truthy(token.email) THEN token.email ELSE token.claims_email

\* PlatformStep with the locals left unset after the state is written, so
\* that the later steps still run
PlatformStepKeepsGoing(c, rq) ==
    LET c0 == Called(c, "get_access_token")
        user_email == TokenEmail(rq.access_token)
    IN  IF rq.access_token # NoToken /\ Truthy(user_email)
        THEN set_state(set_state(set_state(c0,
                 "authenticated_user_email", user_email),
                 "authenticated_via", "fastmcp_oauth"),
                 "access_token", rq.access_token)
        ELSE c0

\* step 1: the token FastMCP has already validated
PlatformStep(c, rq) ==
    LET c0 == Called(c, "get_access_token")
        user_email == TokenEmail(rq.access_token)
    IN  IF rq.fault = "get_access_token"
        THEN c0    \* "except Exception": logged at debug
        ELSE IF rq.access_token # NoToken /\ Truthy(user_email)
        THEN Accept(set_state(set_state(set_state(c0,
                        "authenticated_user_email", user_email),
                        "authenticated_via", "fastmcp_oauth"),
                        "access_token", rq.access_token),
                    user_email, "fastmcp_oauth")
        ELSE c0

\* step 2, up to the await: the bearer token to verify, NoStr when the header
\* step ends without asking the provider
BearerToken(rq) ==
    IF rq.headers.present /\ StartsWith(rq.headers.authorization, BearerPrefix)
    THEN DropFirst(rq.headers.authorization, BearerPrefixLen)
    ELSE NoStr

\* NeedsVerification without the ya29. test: any bearer token is verified
NeedsVerificationAnyBearer(c, rq, provider) ==
    /\ ~Truthy(c.authenticated_user)
    /\ BearerToken(rq) # NoStr
    /\ provider # None

\* NeedsVerification that does not look whether a provider is configured
NeedsVerificationWithoutProvider(c, rq, provider) ==
    /\ ~Truthy(c.authenticated_user)
    /\ StartsWith(BearerToken(rq), Ya29Prefix)

NeedsVerification(c, rq, provider) ==
    /\ ~Truthy(c.authenticated_user)
    /\ rq.fault # "get_http_headers"    \* caught by the outer "except Exception"
    /\ StartsWith(BearerToken(rq), Ya29Prefix)
    /\ provider # None

\* NormalizeToken that stamps its own lifetime on every token it wraps
NormalizeTokenOwnLifetime(verified_auth, token_str, user_email) ==
    IF verified_auth.kind = "WorkspaceAccessToken"
    THEN verified_auth
    ELSE WorkspaceAccessToken(token_str, user_email, verified_auth.claims_email,
                              GoogleOauthPrefix \o TakeFirst(token_str, SessionKeyPrefixLen))

\* the WorkspaceAccessToken the middleware keeps for a verified token
NormalizeToken(verified_auth, token_str, user_email) ==
    IF verified_auth.kind = "WorkspaceAccessToken"
    THEN verified_auth
    ELSE WithExpiresAt(
             WorkspaceAccessToken(token_str, user_email, verified_auth.claims_email,
                                  GoogleOauthPrefix \o TakeFirst(token_str, SessionKeyPrefixLen)),
             IF verified_auth.expires_at # None
             THEN verified_auth.expires_at
             ELSE NowPlusSessionTime)

\* BearerStep without the inner "except Exception": the provider's exception
\* leaves the pass
BearerStepLetsErrorsOut(c, rq, answer) ==
    IF answer.raised
    THEN [ c EXCEPT !.error = VerificationError ]
    ELSE IF answer.token = NoToken
    THEN c
    ELSE LET user_email == TokenEmail(answer.token)
             access_token == NormalizeToken(answer.token, BearerToken(rq), user_email)
             c1 == set_state(c, "access_token", access_token)
             c2 == Called(c1, "ensure_session_from_access_token")
             c3 == set_state(c2, "auth_provider_type", "GoogleProvider")
             c4 == set_state(c3, "token_type", "google_oauth")
             c5 == set_state(c4, "user_email", user_email)
             c6 == set_state(c5, "username", user_email)
             c7 == set_state(c6, "authenticated_user_email", user_email)
             c8 == set_state(c7, "authenticated_via", "bearer_token")
         IN  Accept(c8, user_email, "bearer_token")

\* step 2, after the await: what the middleware does with verify_token's answer
BearerStep(c, rq, answer) ==
    IF answer.raised \/ answer.token = NoToken
    THEN c    \* "except Exception" / "Failed to verify": logged, nothing set
    ELSE IF rq.fault = "session_id"
    THEN \* getattr(context.fastmcp_context, "session_id", None) raises: caught
         \* by the inner "except Exception" after access_token was set
         set_state(c, "access_token",
                   NormalizeToken(answer.token, BearerToken(rq), TokenEmail(answer.token)))
    ELSE IF rq.fault = "ensure_session_from_access_token"
    THEN \* as above, one call later
         Called(set_state(c, "access_token",
                          NormalizeToken(answer.token, BearerToken(rq),
                                         TokenEmail(answer.token))),
                "ensure_session_from_access_token")
    ELSE LET user_email == TokenEmail(answer.token)
             access_token == NormalizeToken(answer.token, BearerToken(rq), user_email)
             c1 == set_state(c, "access_token", access_token)
             c2 == Called(c1, "ensure_session_from_access_token")
             c3 == set_state(c2, "auth_provider_type", "GoogleProvider")
             c4 == set_state(c3, "token_type", "google_oauth")
             c5 == set_state(c4, "user_email", user_email)
             c6 == set_state(c5, "username", user_email)
             c7 == set_state(c6, "authenticated_user_email", user_email)
             c8 == set_state(c7, "authenticated_via", "bearer_token")
         IN  Accept(c8, user_email, "bearer_token")

\* BearerStore that forgets the MCP session id of the request
BearerStoreUnbound(store, rq, answer) ==
    IF answer.raised \/ answer.token = NoToken
    THEN store
    ELSE LET user_email == TokenEmail(answer.token)
         IN  ensure_session_from_access_token(
                 store, NormalizeToken(answer.token, BearerToken(rq), user_email),
                 user_email, None)

\* the Session Store after step 2
BearerStore(store, rq, answer) ==
    IF \/ answer.raised \/ answer.token = NoToken
       \/ rq.fault \in { "session_id", "ensure_session_from_access_token" }
    THEN store
    ELSE LET user_email == TokenEmail(answer.token)
         IN  ensure_session_from_access_token(
                 store, NormalizeToken(answer.token, BearerToken(rq), user_email),
                 user_email, rq.session_id)

\* StdioSessionStep that takes the named user at their word
StdioSessionStepTrustsName(c, rq, store) ==
    IF Truthy(rq.user_google_email)
    THEN Accept(set_state(set_state(set_state(Called(c, "has_session"),
                    "authenticated_user_email", rq.user_google_email),
                    "authenticated_via", "stdio_session"),
                    "auth_provider_type", "oauth21_stdio"),
                rq.user_google_email, "stdio_session")
    ELSE c

\* step 3a: stdio, the call names a user
StdioSessionStep(c, rq, store) ==
    IF Truthy(rq.user_google_email)
    THEN LET c0 == Called(c, "has_session")
         IN  IF rq.fault # "has_session" /\ has_session(store, rq.user_google_email)
             THEN Accept(set_state(set_state(set_state(c0,
                             "authenticated_user_email", rq.user_google_email),
                             "authenticated_via", "stdio_session"),
                             "auth_provider_type", "oauth21_stdio"),
                         rq.user_google_email, "stdio_session")
             ELSE c0
    ELSE c

\* StdioSingleSessionStep that takes some stored user when several exist
StdioSingleSessionStepGuesses(c, rq, store) ==
    IF ~Truthy(c.authenticated_user)
    THEN LET c0 == Called(c, "get_single_user_email")
             single_user == IF StoredUsers(store) # { }
                            THEN CHOOSE u \in StoredUsers(store) : TRUE
                            ELSE None
         IN  IF Truthy(single_user)
             THEN Accept(set_state(set_state(set_state(set_state(set_state(c0,
                             "authenticated_user_email", single_user),
                             "authenticated_via", "stdio_single_session"),
                             "auth_provider_type", "oauth21_stdio"),
                             "user_email", single_user),
                             "username", single_user),
                         single_user, "stdio_single_session")
             ELSE c0
    ELSE c

\* step 3b: stdio, exactly one session exists
StdioSingleSessionStep(c, rq, store) ==
    IF ~Truthy(c.authenticated_user)
    THEN LET c0 == Called(c, "get_single_user_email")
             single_user == IF rq.fault = "get_single_user_email"
                            THEN None    \* "except Exception": logged at debug
                            ELSE get_single_user_email(store)
         IN  IF Truthy(single_user)
             THEN Accept(set_state(set_state(set_state(set_state(set_state(c0,
                             "authenticated_user_email", single_user),
                             "authenticated_via", "stdio_single_session"),
                             "auth_provider_type", "oauth21_stdio"),
                             "user_email", single_user),
                             "username", single_user),
                         single_user, "stdio_single_session")
             ELSE c0
    ELSE c

\* step 4: the MCP session binding
McpSessionStep(c, rq, store) ==
    IF ~Truthy(c.authenticated_user) /\ rq.fault = "session_id"
    THEN \* hasattr(context.fastmcp_context, "session_id") is outside any try
         [ c EXCEPT !.error = FaultError ]
    ELSE IF ~Truthy(c.authenticated_user) /\ Truthy(rq.session_id)
    THEN LET c0 == Called(c, "get_user_by_mcp_session")
             bound_user == IF rq.fault = "get_user_by_mcp_session"
                           THEN None    \* "except Exception": logged at debug
                           ELSE get_user_by_mcp_session(store, rq.session_id)
         IN  IF Truthy(bound_user)
             THEN Accept(set_state(set_state(set_state(c0,
                             "authenticated_user_email", bound_user),
                             "authenticated_via", "mcp_session_binding"),
                             "auth_provider_type", "oauth21_session"),
                         bound_user, "mcp_session_binding")
             ELSE c0
    ELSE c

\* Fallbacks with the MCP session binding tried before the stdio sessions
FallbacksBindingFirst(c, rq, store, transport) ==
    IF c.error = NoException /\ ~Truthy(c.authenticated_user)
    THEN LET c0 == Called(c, "get_transport_mode")
             c1 == McpSessionStep(c0, rq, store)
         IN  IF transport = "stdio" /\ ~Truthy(c1.authenticated_user)
             THEN StdioSingleSessionStep(StdioSessionStep(c1, rq, store), rq, store)
             ELSE c1
    ELSE c

\* Fallbacks that try the stdio sessions under every transport
FallbacksAnyTransport(c, rq, store, transport) ==
    IF c.error = NoException /\ ~Truthy(c.authenticated_user)
    THEN McpSessionStep(
             StdioSingleSessionStep(
                 StdioSessionStep(Called(c, "get_transport_mode"), rq, store),
                 rq, store),
             rq, store)
    ELSE c

\* steps 3 and 4: everything after the header step
Fallbacks(c, rq, store, transport) ==
    IF c.error = NoException /\ ~Truthy(c.authenticated_user)
    THEN LET c0 == Called(c, "get_transport_mode")
             c1 == IF transport = "stdio"
                   THEN StdioSingleSessionStep(StdioSessionStep(c0, rq, store), rq, store)
                   ELSE c0
         IN  IF rq.fault = "get_transport_mode"
             THEN \* the import and the call are outside any try
                  [ c0 EXCEPT !.error = FaultError ]
             ELSE IF rq.fault = "requested_user" /\ transport = "stdio"
             THEN \* context.request.params.get / context.arguments.get, outside any try
                  [ c0 EXCEPT !.error = FaultError ]
             ELSE McpSessionStep(c1, rq, store)
    ELSE c

(***************************************************************************)
(* What the downstream handler (call_next) can do, and how on_call_tool /  *)
(* on_get_prompt report an exception before re-raising it.                 *)
(***************************************************************************)
NoOutcome == [ kind |-> None, exc |-> NoException ]
Returned == [ kind |-> "returned", exc |-> NoException ]
Raised(e) == [ kind |-> "raised", exc |-> e ]
HandlerOutcomes == { Returned } \cup { Raised(e) : e \in Exceptions }

NoLog == [ level |-> None, exc_info |-> FALSE ]

\* IsAuthenticationError that looks at the type only
IsAuthenticationErrorByType(e) ==
    e.type = "GoogleAuthenticationError"

\* the except clause of on_call_tool / on_get_prompt
IsAuthenticationError(e) ==
    e.type = "GoogleAuthenticationError" \/ e.access_denied

LogFor(outcome) ==
    IF outcome.kind = "raised"
    THEN IF IsAuthenticationError(outcome.exc)
         THEN [ level |-> "info", exc_info |-> FALSE ]
         ELSE [ level |-> "error", exc_info |-> TRUE ]
    ELSE NoLog

\* what the middleware hands back to its caller for call_next's outcome:
\* "return result" and a bare "raise"
ResponseFor(outcome) == outcome

(***************************************************************************)
(* get_session_time (auth/external_oauth_provider.py): the SESSION_TIME     *)
(* environment variable, parsed by int() and clamped.  An environment      *)
(* variable is unset or holds a string; int() strips blanks, takes a sign  *)
(* and decimal digits with single underscores between them, and raises     *)
(* ValueError on anything else.                                            *)
(***************************************************************************)
Unset == [ set |-> FALSE, value |-> NoStr ]
EnvValue(str) == [ set |-> TRUE, value |-> str ]

\* os.getenv(name, default)
getenv(env, default) == IF env.set THEN env.value ELSE default

DigitChars == << "0", "1", "2", "3", "4", "5", "6", "7", "8", "9" >>
IsDigit(ch) == \E i \in 1..Len(DigitChars) : DigitChars[i] = ch
DigitValue(ch) == (CHOOSE i \in 1..Len(DigitChars) : DigitChars[i] = ch) - 1

RECURSIVE LStrip(_)
LStrip(str) == IF str # NoStr /\ Head(str) = " " THEN LStrip(Tail(str)) ELSE str

RECURSIVE RStrip(_)
RStrip(str) ==
    IF str # NoStr /\ str[Len(str)] = " "
    THEN RStrip(SubSeq(str, 1, Len(str) - 1))
    ELSE str

\* digits, with single underscores only between two digits
ValidDigits(d) ==
    /\ d # NoStr
    /\ \A i \in 1..Len(d) :
           \/ IsDigit(d[i])
           \/ /\ d[i] = "_"
              /\ 1 < i /\ i < Len(d)
              /\ IsDigit(d[i - 1]) /\ IsDigit(d[i + 1])

RECURSIVE DigitsValue(_)
DigitsValue(d) ==
    IF d = NoStr
    THEN 0
    ELSE LET front == SubSeq(d, 1, Len(d) - 1)
             last == d[Len(d)]
         IN  IF last = "_"
             THEN DigitsValue(front)
             ELSE 10 * DigitsValue(front) + DigitValue(last)

\* int(raw): the value, or ValueError
int(raw) ==
    LET str == RStrip(LStrip(raw))
        signed == str # NoStr /\ Head(str) \in { "+", "-" }
        d == IF signed THEN Tail(str) ELSE str
    IN  IF ValidDigits(d)
        THEN [ ok |-> TRUE,
               value |-> IF signed /\ Head(str) = "-"
                         THEN 0 - DigitsValue(d) ELSE DigitsValue(d) ]
        ELSE [ ok |-> FALSE, value |-> 0 ]

max(a, b) == IF a >= b THEN a ELSE b
min(a, b) == IF a <= b THEN a ELSE b

\* get_session_time that trusts any integer it is given
get_session_timeUnclamped(env) ==
    LET raw == getenv(env, NoStr)
    IN  IF raw = NoStr \/ ~int(raw).ok THEN DEFAULT_SESSION_TIME ELSE int(raw).value

\* the body of get_session_time, run on the first call
get_session_time(env) ==
    LET raw == getenv(env, NoStr)
    IN  IF raw = NoStr
        THEN DEFAULT_SESSION_TIME
        ELSE IF ~int(raw).ok
        THEN DEFAULT_SESSION_TIME    \* ValueError: warning, default
        ELSE max(1, min(int(raw).value, MAX_SESSION_TIME))

\* functools.lru_cache(maxsize=1) around it
NoCache == [ cached |-> FALSE, value |-> 0 ]

\* the values SESSION_TIME is given: unset, every string of at most
\* MaxRawLen characters, and the integers around the limits
SessionTimeChars == { "0", "1", "9", "-", "+", "_", " ", "x" }
SessionTimeEdges ==
    { << "3", "6", "0", "0" >>, << "8", "6", "3", "9", "9" >>,
      << "8", "6", "4", "0", "0" >>, << "8", "6", "4", "0", "1" >>,
      << "-", "8", "6", "4", "0", "1" >>, << "1", "0", "0", "_", "0", "0", "0" >>,
      << " ", "8", "6", "4", "0", "0", " " >>, << "8", "6", "4", "0", "0", ".", "0" >> }
SessionTimeValues ==
    { Unset } \cup
    { EnvValue(str) : str \in SessionTimeEdges \cup { NoStr } \cup
                             UNION { [ 1..k -> SessionTimeChars ] : k \in 1..MaxRawLen } }

(***************************************************************************)
(* Tool registration (main.py, core/tool_registry.py).  A tool carries the *)
(* scope groups its service decorator requires (none for a plain           *)
(* server.tool); the enabled-tools setting is None or a set of names.      *)
(***************************************************************************)
ToolNames == { "start_google_auth", "list_spreadsheets", "read_sheet_values",
               "modify_sheet_values" }

\* getattr(func_to_check, "_required_google_scopes", [])
RequiredScopes(tool_name) ==
    CASE tool_name = "list_spreadsheets"   -> { "drive_read" }
      [] tool_name = "read_sheet_values"   -> { "sheets_read" }
      [] tool_name = "modify_sheet_values" -> { "sheets_write" }
      [] OTHER                             -> { }

\* auth.scopes.get_all_read_only_scopes()
ReadOnlyScopes == { "drive_read", "sheets_read" }

AllToolsEnabled == [ is_none |-> TRUE, names |-> { } ]
OnlyTools(names) == [ is_none |-> FALSE, names |-> names ]
EnabledToolsSettings == { AllToolsEnabled } \cup { OnlyTools(names) : names \in SUBSET ToolNames }

is_tool_enabled(enabled, tool_name) ==
    IF enabled.is_none THEN TRUE ELSE tool_name \in enabled.names

\* filter_server_tools that returns early whenever no tier is configured
filter_server_toolsTierOnly(registry, enabled, oauth21_enabled, read_only) ==
    IF enabled.is_none
    THEN registry
    ELSE registry \ ({ t \in registry : ~is_tool_enabled(enabled, t) }
                      \cup (IF oauth21_enabled THEN { "start_google_auth" } ELSE { }))

\* the registry filter_server_tools leaves behind
filter_server_tools(registry, enabled, oauth21_enabled, read_only) ==
    IF enabled.is_none /\ ~oauth21_enabled
    THEN registry    \* early return
    ELSE LET tier == IF ~enabled.is_none
                     THEN { t \in registry : ~is_tool_enabled(enabled, t) }
                     ELSE { }
             oauth == IF oauth21_enabled /\ "start_google_auth" \in registry
                      THEN { "start_google_auth" }
                      ELSE { }
             write == IF read_only
                      THEN { t \in registry \ (tier \cup oauth) :
                                 /\ RequiredScopes(t) # { }
                                 /\ ~(RequiredScopes(t) \subseteq ReadOnlyScopes) }
                      ELSE { }
         IN  registry \ (tier \cup oauth \cup write)

\* the two messages start_google_auth returns under OAuth 2.1
DisabledMessages == { "disabled: provide a bearer token", "disabled: use the client's flow" }

NoAuthCall == [ called |-> FALSE, oauth21_enabled |-> FALSE, raised |-> None,
                message |-> None, calls |-> << >> ]

\* core.server.start_google_auth: what it returns or raises, and the calls
\* it makes on the way (check_client_secrets, start_auth_flow)
start_google_auth(oauth21_enabled, external, user_google_email, secrets_error, flow) ==
    IF oauth21_enabled
    THEN [ raised |-> None,
           message |-> IF external THEN "disabled: provide a bearer token"
                                   ELSE "disabled: use the client's flow",
           calls |-> << >> ]
    ELSE IF user_google_email = None
    THEN [ raised |-> "ValueError", message |-> None, calls |-> << >> ]
    ELSE IF secrets_error
    THEN [ raised |-> None, message |-> "Authentication Error",
           calls |-> << "check_client_secrets" >> ]
    ELSE [ raised |-> None,
           message |-> IF flow = "ok" THEN "auth_message" ELSE "Error",
           calls |-> << "check_client_secrets", "start_auth_flow" >> ]

(***************************************************************************)
(* The command line mode (core.cli_handler).  An argument is one token; a  *)
(* JSON text is a token of JsonTexts, and a dictionary is the set of its   *)
(* keys.                                                                   *)
(***************************************************************************)
MaxCliArgs == 3

JsonTexts == { "{}", "{\"spreadsheet_id\": \"s\"}", "{\"spreadsheet_id\": " }

\* json.loads: the dictionary, or JSONDecodeError
json_loads(text) ==
    CASE text = "{}" -> [ ok |-> TRUE, value |-> { } ]
      [] text = "{\"spreadsheet_id\": \"s\"}" -> [ ok |-> TRUE, value |-> { "spreadsheet_id" } ]
      [] OTHER -> [ ok |-> FALSE, value |-> { } ]

CliTokens == { "list", "help", "--json", "--args", "--verbose",
               "read_sheet_values", "no_such_tool" } \cup JsonTexts

\* str.startswith("-")
StartsWithDash(arg) == arg \in { "--json", "--args", "--verbose", "--list", "--help",
                                 "-l", "-j", "-h", "-a" }

\* the parameters the functions behind the tools take, and those without a
\* default
Parameters(tool_name) == { "spreadsheet_id", "range_name" }
RequiredParameters(tool_name) == { "spreadsheet_id" }

ParsedDefaults == [ command |-> "list", tool_name |-> None, tool_args |-> { },
                    output_format |-> "text", raised |-> None ]

\* the while loop of parse_cli_args, from argument i on
RECURSIVE ParseFrom(_, _, _)
ParseFrom(args, i, result) ==
    IF i > Len(args)
    THEN result
    ELSE LET arg == args[i] IN
         IF arg \in { "list", "-l", "--list" }
         THEN ParseFrom(args, i + 1, [ result EXCEPT !.command = "list" ])
         ELSE IF arg \in { "--json", "-j" }
         THEN ParseFrom(args, i + 1, [ result EXCEPT !.output_format = "json" ])
         ELSE IF arg \in { "help", "--help", "-h" }
         THEN IF result.tool_name # None
              THEN ParseFrom(args, i + 1, [ result EXCEPT !.command = "help" ])
              ELSE IF i + 1 <= Len(args) /\ ~StartsWithDash(args[i + 1])
              THEN ParseFrom(args, i + 2, [ result EXCEPT !.tool_name = args[i + 1],
                                                           !.command = "help" ])
              ELSE ParseFrom(args, i + 1, [ result EXCEPT !.command = "list" ])
         ELSE IF arg \in { "--args", "-a" } /\ i + 1 <= Len(args)
         THEN IF json_loads(args[i + 1]).ok
              THEN ParseFrom(args, i + 2,
                             [ result EXCEPT !.tool_args = json_loads(args[i + 1]).value ])
              ELSE [ result EXCEPT !.raised = "ValueError" ]
         ELSE IF ~StartsWithDash(arg) /\ result.tool_name = None
         THEN ParseFrom(args, i + 1, [ result EXCEPT !.tool_name = arg,
                                                      !.command = "run" ])
         ELSE ParseFrom(args, i + 1, result)

parse_cli_args(args) == ParseFrom(args, 1, ParsedDefaults)

\* what stdin holds: a terminal, nothing, or a JSON text
StdinContents == { "tty", "" } \cup JsonTexts

read_stdin_args(stdin) ==
    IF stdin = "tty" \/ stdin = ""
    THEN [ raised |-> None, value |-> { } ]
    ELSE IF json_loads(stdin).ok
    THEN [ raised |-> None, value |-> json_loads(stdin).value ]
    ELSE [ raised |-> "ValueError", value |-> { } ]

\* what the function behind a tool does once its arguments bind
ToolBehaviours == { "returns", "raises" }

\* run_tool: it raises ValueError, or returns the string it built; caught
\* names the except clause that built it
run_tool(tools, tool_name, args, behaviour) ==
    IF tool_name \notin tools
    THEN [ raised |-> "ValueError", returned |-> None, caught |-> None ]
    ELSE IF ~(RequiredParameters(tool_name) \subseteq args) \/ ~(args \subseteq Parameters(tool_name))
    THEN [ raised |-> None, returned |-> "Error calling", caught |-> "TypeError" ]
    ELSE IF behaviour = "raises"
    THEN [ raised |-> None, returned |-> "Error:", caught |-> "Exception" ]
    ELSE [ raised |-> None, returned |-> "result", caught |-> None ]

\* handle_cli_mode: its exit code, what it printed and where, and what the
\* 'run' command met on the way
HandleCliModeResult(tools, args, stdin, behaviour) ==
    LET parsed == parse_cli_args(args)
        none == [ raised |-> None, returned |-> None, caught |-> None ]
    IN  IF parsed.raised # None
        THEN [ exit_code |-> 1, stdout |-> None, stderr |-> "Error:",
               command |-> None, ran |-> none, raised |-> parsed.raised ]
        ELSE IF parsed.command = "list"
        THEN [ exit_code |-> 0, stdout |-> "tools", stderr |-> None,
               command |-> "list", ran |-> none, raised |-> None ]
        ELSE IF parsed.command = "help"
        THEN [ exit_code |-> 0, stdout |-> "help", stderr |-> None,
               command |-> "help", ran |-> none, raised |-> None ]
        ELSE LET read == read_stdin_args(stdin)
                 ran == run_tool(tools, parsed.tool_name,
                                 read.value \cup parsed.tool_args, behaviour)
             IN  IF read.raised # None
                 THEN [ exit_code |-> 1, stdout |-> None, stderr |-> "Error:",
                        command |-> "run", ran |-> none, raised |-> read.raised ]
                 ELSE IF ran.raised # None
                 THEN [ exit_code |-> 1, stdout |-> None, stderr |-> "Error:",
                        command |-> "run", ran |-> ran, raised |-> ran.raised ]
                 ELSE [ exit_code |-> 0, stdout |-> ran.returned, stderr |-> None,
                        command |-> "run", ran |-> ran, raised |-> None ]

(***************************************************************************)
(* format_sheet_range (gsheets.sheets_tools, gsheets.sheets_helpers).  An  *)
(* optional string is NotGiven or Given(str); an optional bool or int is   *)
(* written as Python prints it.                                            *)
(***************************************************************************)
NotGiven == [ given |-> FALSE, value |-> NoStr ]
Given(str) == [ given |-> TRUE, value |-> str ]

\* the truth value of an optional string: None and "" are false
Provided(option) == option.given /\ option.value # NoStr

LowerLetters == << "a", "b", "c", "d", "e", "f", "g", "h", "i", "j", "k", "l", "m", "n", "o", "p", "q", "r", "s", "t", "u", "v", "w", "x", "y", "z" >>
UpperLetters == << "A", "B", "C", "D", "E", "F", "G", "H", "I", "J", "K", "L", "M", "N", "O", "P", "Q", "R", "S", "T", "U", "V", "W", "X", "Y", "Z" >>

\* str.upper()
upper(str) ==
    [ i \in 1..Len(str) |->
        IF \E k \in 1..Len(LowerLetters) : LowerLetters[k] = str[i]
        THEN UpperLetters[CHOOSE k \in 1..Len(LowerLetters) : LowerLetters[k] = str[i]]
        ELSE str[i] ]

HexDigits == { "0", "1", "2", "3", "4", "5", "6", "7", "8", "9",
               "a", "b", "c", "d", "e", "f", "A", "B", "C", "D", "E", "F" }

\* _parse_hex_color: None, the six digits of the colour, or UserInputError
parse_hex_color(color) ==
    IF ~Provided(color)
    THEN [ raised |-> FALSE, value |-> NotGiven ]
    ELSE LET stripped == RStrip(LStrip(color.value))
             trimmed == IF stripped # NoStr /\ Head(stripped) = "#"
                        THEN Tail(stripped)
                        ELSE stripped
         IN  IF Len(trimmed) # 6
             THEN [ raised |-> TRUE, value |-> NotGiven ]
             ELSE IF \E i \in 1..6 : trimmed[i] \notin HexDigits
             THEN [ raised |-> TRUE, value |-> NotGiven ]
             ELSE [ raised |-> FALSE, value |-> Given(trimmed) ]

allowed_number_formats ==
    { << "N", "U", "M", "B", "E", "R" >>,
      << "N", "U", "M", "B", "E", "R", "_", "W", "I", "T", "H", "_", "G", "R", "O", "U", "P", "I", "N", "G" >>,
      << "C", "U", "R", "R", "E", "N", "C", "Y" >>,
      << "P", "E", "R", "C", "E", "N", "T" >>,
      << "S", "C", "I", "E", "N", "T", "I", "F", "I", "C" >>,
      << "D", "A", "T", "E" >>,
      << "T", "I", "M", "E" >>,
      << "D", "A", "T", "E", "_", "T", "I", "M", "E" >>,
      << "T", "E", "X", "T" >> }

allowed_wrap_strategies ==
    { << "W", "R", "A", "P" >>,
      << "C", "L", "I", "P" >>,
      << "O", "V", "E", "R", "F", "L", "O", "W", "_", "C", "E", "L", "L" >> }

allowed_h_alignments ==
    { << "L", "E", "F", "T" >>,
      << "C", "E", "N", "T", "E", "R" >>,
      << "R", "I", "G", "H", "T" >> }

allowed_v_alignments ==
    { << "T", "O", "P" >>,
      << "M", "I", "D", "D", "L", "E" >>,
      << "B", "O", "T", "T", "O", "M" >> }

\* one validated option: skipped when false, else upper-cased and looked up
Normalized(option, allowed) ==
    IF ~Provided(option)
    THEN [ raised |-> FALSE, value |-> NotGiven ]
    ELSE IF upper(option.value) \notin allowed
    THEN [ raised |-> TRUE, value |-> NotGiven ]
    ELSE [ raised |-> FALSE, value |-> Given(upper(option.value)) ]

\* what the Sheets API does with the call: it answers, the metadata get
\* fails, or the range names no sheet of the metadata (_parse_a1_range)
SheetsAnswers == { "ok", "get fails", "range not found" }

NoFormat == [ backgroundColor |-> NotGiven, foregroundColor |-> NotGiven,
              bold |-> "None", italic |-> "None", fontSize |-> "None",
              numberFormat |-> NotGiven, wrapStrategy |-> NotGiven,
              horizontalAlignment |-> NotGiven, verticalAlignment |-> NotGiven ]

Raises(error, api_calls) ==
    [ raised |-> error, api_calls |-> api_calls, user_entered_format |-> NoFormat ]

\* _format_sheet_range_impl that asks for the metadata before it validates
format_sheet_range_implGetsFirst(o, sheets) ==
    IF sheets = "get fails"
    THEN Raises("HttpError", << "get" >>)
    ELSE IF \/ Normalized(o.wrap_strategy, allowed_wrap_strategies).raised
            \/ Normalized(o.horizontal_alignment, allowed_h_alignments).raised
            \/ Normalized(o.vertical_alignment, allowed_v_alignments).raised
            \/ Normalized(o.number_format_type, allowed_number_formats).raised
    THEN Raises("UserInputError", << "get" >>)
    ELSE [ raised |-> None, api_calls |-> << "get", "batchUpdate" >>,
           user_entered_format |->
               [ NoFormat EXCEPT
                   !.wrapStrategy = Given(o.wrap_strategy.value),
                   !.horizontalAlignment = Given(o.horizontal_alignment.value),
                   !.verticalAlignment = Given(o.vertical_alignment.value),
                   !.numberFormat = Given(o.number_format_type.value) ] ]

\* _format_sheet_range_impl: what it raises, the requests it has issued to
\* the Sheets API, and the userEnteredFormat of its batchUpdate
format_sheet_range_impl(o, sheets) ==
    LET has_any_format ==
            \/ Provided(o.background_color)
            \/ Provided(o.text_color)
            \/ Provided(o.number_format_type)
            \/ Provided(o.wrap_strategy)
            \/ Provided(o.horizontal_alignment)
            \/ Provided(o.vertical_alignment)
            \/ o.bold # "None"
            \/ o.italic # "None"
            \/ o.font_size # "None"
        bg_color_parsed == parse_hex_color(o.background_color)
        text_color_parsed == parse_hex_color(o.text_color)
        number_format == Normalized(o.number_format_type, allowed_number_formats)
        wrap_strategy_normalized == Normalized(o.wrap_strategy, allowed_wrap_strategies)
        h_align_normalized == Normalized(o.horizontal_alignment, allowed_h_alignments)
        v_align_normalized == Normalized(o.vertical_alignment, allowed_v_alignments)
        user_entered_format ==
            [ backgroundColor |-> bg_color_parsed.value,
              foregroundColor |-> text_color_parsed.value,
              bold |-> o.bold, italic |-> o.italic, fontSize |-> o.font_size,
              numberFormat |-> number_format.value,
              wrapStrategy |-> wrap_strategy_normalized.value,
              horizontalAlignment |-> h_align_normalized.value,
              verticalAlignment |-> v_align_normalized.value ]
    IN  IF ~has_any_format
        THEN Raises("UserInputError", << >>)
        ELSE IF bg_color_parsed.raised \/ text_color_parsed.raised
        THEN Raises("UserInputError", << >>)
        ELSE IF number_format.raised
        THEN Raises("UserInputError", << >>)
        ELSE IF wrap_strategy_normalized.raised
        THEN Raises("UserInputError", << >>)
        ELSE IF h_align_normalized.raised
        THEN Raises("UserInputError", << >>)
        ELSE IF v_align_normalized.raised
        THEN Raises("UserInputError", << >>)
        ELSE IF sheets = "get fails"
        THEN Raises("HttpError", << "get" >>)
        ELSE IF sheets = "range not found"
        THEN Raises("UserInputError", << "get" >>)
        ELSE IF user_entered_format = NoFormat
        THEN Raises("UserInputError", << "get" >>)
        ELSE [ raised |-> None, api_calls |-> << "get", "batchUpdate" >>,
               user_entered_format |-> user_entered_format ]

\* the option values the calls are made with
WrapStrategyValues ==
    { NotGiven, Given(NoStr), Given(<< "w", "r", "a", "p" >>), Given(<< "W", "r", "a", "p" >>),
      Given(<< "W", "R", "A", "P" >>), Given(<< "o", "v", "e", "r", "f", "l", "o", "w", "_", "C", "e", "l", "l" >>),
      Given(<< "I", "N", "V", "A", "L", "I", "D" >>) }
HorizontalAlignmentValues ==
    { NotGiven, Given(<< "C", "e", "n", "t", "e", "r" >>), Given(<< "m", "i", "d", "d", "l", "e" >>) }
VerticalAlignmentValues ==
    { NotGiven, Given(<< "m", "i", "d", "d", "l", "e" >>), Given(<< "c", "e", "n", "t", "e", "r" >>) }
NumberFormatTypeValues ==
    { NotGiven, Given(<< "d", "a", "t", "e", "_", "t", "i", "m", "e" >>), Given(<< "m", "o", "n", "e", "y" >>) }
BackgroundColorValues ==
    { NotGiven, Given(<< "#", "F", "F", "E", "E", "C", "C" >>), Given(<< "r", "e", "d" >>) }
TextColorValues == { NotGiven, Given(<< "0", "0", "a", "a", "0", "0" >>) }

FormatOptions ==
    [ background_color : BackgroundColorValues, text_color : TextColorValues,
      number_format_type : NumberFormatTypeValues, wrap_strategy : WrapStrategyValues,
      horizontal_alignment : HorizontalAlignmentValues,
      vertical_alignment : VerticalAlignmentValues,
      bold : { "None", "True", "False" }, italic : { "None", "True" },
      font_size : { "None" } ]

NoOptions == [ background_color |-> NotGiven, text_color |-> NotGiven,
               number_format_type |-> NotGiven, wrap_strategy |-> NotGiven,
               horizontal_alignment |-> NotGiven, vertical_alignment |-> NotGiven,
               bold |-> "None", italic |-> "None", font_size |-> "None" ]

NoSheetsCall == [ done |-> FALSE ]

\* a call that has not run yet
SheetsCall(o, sheets) ==
    [ options |-> o, sheets |-> sheets, done |-> FALSE, result |-> Raises(None, << >>) ]

NoCli == [ done |-> FALSE ]

\* an invocation that has not run yet
CliCall(args, stdin, behaviour) ==
    [ args |-> args, stdin |-> stdin, behaviour |-> behaviour, done |-> FALSE,
      result |-> [ exit_code |-> 0, stdout |-> None, stderr |-> None,
                   command |-> None,
                   ran |-> [ raised |-> None, returned |-> None, caught |-> None ],
                   raised |-> None ] ]

(***************************************************************************)
(* State.                                                                  *)
(***************************************************************************)
Req == { "r1", "r2" }

VARIABLES
    phase,            \* main(): "init", "running" (server.run) or "exited"
    transport_mode,   \* core.config.get_transport_mode()
    auth_provider,    \* core.server._auth_provider
    legacy_callback_registered,   \* core.server._legacy_callback_registered
    session_store,    \* the OAuth 2.1 session store
    pc,               \* where each request is: idle, verify, call_next, done
    req,              \* the request being handled
    ctx,              \* its request-scoped state and the locals of the pass
    verify_answer,    \* what verify_token answered for it
    first_pass,       \* the outcome of its first pass, once the pass is repeated
    bearer_bound,     \* history: per MCP session, the users resolved by bearer token
                      \* while carrying it, and the latest of them
    call_next_calls,  \* how often call_next was invoked for it
    handler_outcome,  \* what call_next did
    response,         \* what the middleware returned or raised
    log,              \* the record logged by the except clause
    SESSION_TIME,     \* the environment variable
    session_time_cache,   \* the lru_cache of get_session_time
    tool_registry,    \* server._tool_manager._tools: the names registered
    enabled_tools,    \* core.tool_registry._enabled_tools
    read_only_mode,   \* auth.scopes.is_read_only_mode()
    callback_response,    \* what legacy_oauth2_callback answered last, where recorded
    auth_tool_result, \* what a direct call of start_google_auth returned
    cli,              \* a --cli invocation: its arguments and how it ended
    sheets_call       \* a call of format_sheet_range: its options and what it did

vars == << phase, transport_mode, auth_provider, legacy_callback_registered,
           session_store, pc, req, ctx,
           verify_answer, first_pass, bearer_bound,
           call_next_calls, handler_outcome, response, log,
           SESSION_TIME, session_time_cache, tool_registry, enabled_tools,
           read_only_mode, callback_response,
           auth_tool_result, cli, sheets_call >>

call_vars == << auth_tool_result, cli, sheets_call >>
startup_vars == << SESSION_TIME, session_time_cache, tool_registry, enabled_tools,
                   read_only_mode >>
config_vars == << phase, transport_mode, auth_provider, legacy_callback_registered,
                  startup_vars, callback_response, call_vars >>
exit_vars == << call_next_calls, handler_outcome, response, log >>

TransportModes == { "stdio", "streamable-http" }

NoAnswer == [ asked |-> FALSE, raised |-> FALSE, token |-> NoToken ]
NoFirstPass == [ done |-> FALSE, email |-> None, via |-> None, answer |-> NoAnswer ]

\* what the OAuth configuration read by configure_server_for_http says:
\* OAuth 2.1 off, on without credentials, on with the standard or the
\* external provider, or on with a provider that cannot be built
OAuthConfigs == { "legacy", "unconfigured", "GoogleProvider", "ExternalOAuthProvider",
                  "broken" }

\* configure_server_for_http that logs a provider it cannot build and returns
configure_server_for_httpDefers(transport, config) ==
    IF transport = "streamable-http" /\ config \in { "GoogleProvider", "ExternalOAuthProvider" }
    THEN [ raised |-> FALSE, auth_provider |-> config, registered |-> FALSE ]
    ELSE [ raised |-> FALSE, auth_provider |-> None,
           registered |-> (transport = "streamable-http" /\ config = "legacy") ]

\* the module globals of core.server after configure_server_for_http
configure_server_for_http(transport, config) ==
    IF transport # "streamable-http"
    THEN [ raised |-> FALSE, auth_provider |-> None, registered |-> FALSE ]
    ELSE CASE config = "unconfigured" ->
                [ raised |-> FALSE, auth_provider |-> None, registered |-> FALSE ]
           [] config = "broken" ->
                [ raised |-> TRUE, auth_provider |-> None, registered |-> FALSE ]
           [] config = "legacy" ->
                [ raised |-> FALSE, auth_provider |-> None, registered |-> TRUE ]
           [] OTHER ->
                [ raised |-> FALSE, auth_provider |-> config, registered |-> FALSE ]

\* the server as started with SESSION_TIME unset and the tool tier TierAtStart
TierAtStart == { "read_sheet_values" }

StartupDefaults ==
    /\ SESSION_TIME = Unset
    /\ session_time_cache = NoCache
    /\ tool_registry = TierAtStart
    /\ enabled_tools = OnlyTools(TierAtStart)
    /\ read_only_mode = FALSE

NoResponse == [ kind |-> None, user |-> None ]

NoCalls ==
    /\ auth_tool_result = NoAuthCall
    /\ cli = NoCli
    /\ sheets_call = NoSheetsCall

ServerAtStart ==
    /\ callback_response = NoResponse
    /\ transport_mode = "stdio"
    /\ auth_provider = None
    /\ legacy_callback_registered = FALSE
    /\ session_store = EmptyStore
    /\ pc = [ r \in Req |-> "idle" ]
    /\ req = [ r \in Req |-> NoRequest ]
    /\ ctx = [ r \in Req |-> FreshContext ]
    /\ verify_answer = [ r \in Req |-> NoAnswer ]
    /\ first_pass = [ r \in Req |-> NoFirstPass ]
    /\ bearer_bound = [ m \in McpSessionIds |-> [ all |-> { }, last |-> None ] ]
    /\ call_next_calls = [ r \in Req |-> 0 ]
    /\ handler_outcome = [ r \in Req |-> NoOutcome ]
    /\ response = [ r \in Req |-> NoOutcome ]
    /\ log = [ r \in Req |-> NoLog ]

Init ==
    /\ phase = "init"
    /\ ServerAtStart
    /\ NoCalls
    /\ StartupDefaults

(***************************************************************************)
(* main(): the transport is set, the server is configured for HTTP when    *)
(* the transport is streamable-http, and the server runs; an exception of  *)
(* the configuration ends the process.                                     *)
(***************************************************************************)
main(transport, config) ==
    /\ phase = "init"
    /\ LET configured == configure_server_for_http(transport, config)
       IN  /\ transport_mode' = transport
           /\ auth_provider' = configured.auth_provider
           /\ legacy_callback_registered' = configured.registered
           /\ phase' = IF configured.raised THEN "exited" ELSE "running"
    /\ UNCHANGED << session_store, pc, req, ctx, verify_answer, first_pass,
                    bearer_bound, exit_vars, startup_vars, callback_response,
                    call_vars >>

\* the requests that can reach the middleware: HTTP headers exist under
\* streamable-http only, a platform-validated token only when server.auth
\* is set
RequestsNow ==
    { rq \in Requests :
        /\ (rq.headers.present => transport_mode = "streamable-http")
        /\ (rq.access_token # NoToken => auth_provider # None) }
        \cup { NoContextRequest }

(***************************************************************************)
(* on_call_tool / on_get_prompt.  _process_request_for_auth runs in the    *)
(* two pieces its one await cuts it in; an exception that leaves it is     *)
(* logged by the handler's except clause and re-raised, call_next unasked. *)
(***************************************************************************)
\* EndOfPass of a middleware that turns unresolved requests away itself
EndOfPassRejectsUnresolved(r, rq, c) ==
    /\ ctx' = [ ctx EXCEPT ![r] = c ]
    /\ IF c.error = NoException /\ Truthy(c.authenticated_user)
       THEN /\ pc' = [ pc EXCEPT ![r] = "call_next" ]
            /\ req' = [ req EXCEPT ![r] = rq ]
            /\ UNCHANGED exit_vars
       ELSE /\ pc' = [ pc EXCEPT ![r] = "done" ]
            /\ req' = [ req EXCEPT ![r] = NoRequest ]
            /\ response' = [ response EXCEPT ![r] = ResponseFor(Raised(VerificationError)) ]
            /\ log' = [ log EXCEPT ![r] = LogFor(Raised(VerificationError)) ]
            /\ UNCHANGED << call_next_calls, handler_outcome >>

\* the pass has ended with context c: on to call_next, or out with the error
EndOfPass(r, rq, c) ==
    /\ ctx' = [ ctx EXCEPT ![r] = c ]
    /\ IF c.error = NoException
       THEN /\ pc' = [ pc EXCEPT ![r] = "call_next" ]
            /\ req' = [ req EXCEPT ![r] = rq ]
            /\ UNCHANGED exit_vars
       ELSE /\ pc' = [ pc EXCEPT ![r] = "done" ]
            /\ req' = [ req EXCEPT ![r] = NoRequest ]
            /\ response' = [ response EXCEPT ![r] = ResponseFor(Raised(c.error)) ]
            /\ log' = [ log EXCEPT ![r] = LogFor(Raised(c.error)) ]
            /\ UNCHANGED << call_next_calls, handler_outcome >>

\* StartPass that trusts an MCP session already bound in the store and does
\* not verify the bearer token again
StartPassTrustsBoundSession(r, rq) ==
    /\ verify_answer' = [ verify_answer EXCEPT ![r] = NoAnswer ]
    /\ IF ~rq.fastmcp_context
       THEN EndOfPass(r, rq, FreshContext)
       ELSE LET c1 == PlatformStep(FreshContext, rq)
                c2 == IF Truthy(c1.authenticated_user)
                      THEN c1 ELSE Called(c1, "get_http_headers")
            IN  IF /\ NeedsVerification(c2, rq, auth_provider)
                   /\ ~Truthy(get_user_by_mcp_session(session_store, rq.session_id))
                THEN /\ ctx' = [ ctx EXCEPT ![r] = Called(c2, "verify_token") ]
                     /\ pc' = [ pc EXCEPT ![r] = "verify" ]
                     /\ req' = [ req EXCEPT ![r] = rq ]
                     /\ UNCHANGED exit_vars
                ELSE EndOfPass(r, rq, Fallbacks(c2, rq, session_store, transport_mode))
    /\ UNCHANGED << config_vars, session_store >>

\* from the entry of _process_request_for_auth to its first suspension point
StartPass(r, rq) ==
    /\ verify_answer' = [ verify_answer EXCEPT ![r] = NoAnswer ]
    /\ IF ~rq.fastmcp_context
       THEN EndOfPass(r, rq, FreshContext)
       ELSE LET c1 == PlatformStep(FreshContext, rq)
                c2 == IF Truthy(c1.authenticated_user)
                      THEN c1 ELSE Called(c1, "get_http_headers")
            IN  IF NeedsVerification(c2, rq, auth_provider)
                THEN /\ ctx' = [ ctx EXCEPT ![r] = Called(c2, "verify_token") ]
                     /\ pc' = [ pc EXCEPT ![r] = "verify" ]
                     /\ req' = [ req EXCEPT ![r] = rq ]
                     /\ UNCHANGED exit_vars
                ELSE EndOfPass(r, rq, Fallbacks(c2, rq, session_store, transport_mode))
    /\ UNCHANGED << config_vars, session_store >>

\* a tool or prompt call arrives
Begin(r, rq) ==
    /\ phase = "running"
    /\ pc[r] = "idle"
    /\ StartPass(r, rq)
    /\ UNCHANGED << first_pass, bearer_bound >>

\* AwaitVerifyToken of a middleware that keeps the token being verified in
\* an attribute of the instance, shared by the requests in flight
AwaitVerifyTokenSharedAttribute(r, lookup) ==
    /\ pc[r] = "verify"
    /\ LET shared == req[CHOOSE other \in Req : pc[other] = "verify"]
           answer == verify_token(auth_provider, BearerToken(shared), lookup)
           store == BearerStore(session_store, shared, answer)
           c == BearerStep(ctx[r], shared, answer)
       IN  /\ verify_answer' = [ verify_answer EXCEPT ![r] = answer ]
           /\ session_store' = store
           /\ EndOfPass(r, req[r], Fallbacks(c, req[r], store, transport_mode))
    /\ UNCHANGED << config_vars, first_pass >>

\* auth_provider.verify_token answers; the rest of the pass runs
AwaitVerifyToken(r, lookup) ==
    /\ pc[r] = "verify"
    /\ LET answer == verify_token(auth_provider, BearerToken(req[r]), lookup)
           store == BearerStore(session_store, req[r], answer)
           c == BearerStep(ctx[r], req[r], answer)
       IN  /\ verify_answer' = [ verify_answer EXCEPT ![r] = answer ]
           /\ session_store' = store
           /\ EndOfPass(r, req[r], Fallbacks(c, req[r], store, transport_mode))
    /\ UNCHANGED << config_vars, first_pass >>

VerifyReturn(r, lookup) ==
    /\ AwaitVerifyToken(r, lookup)
    /\ UNCHANGED bearer_bound

\* result = await call_next(context); return result / log and raise
CallNextReturn(r, outcome) ==
    /\ pc[r] = "call_next"
    /\ call_next_calls' = [ call_next_calls EXCEPT ![r] = @ + 1 ]
    /\ handler_outcome' = [ handler_outcome EXCEPT ![r] = outcome ]
    /\ response' = [ response EXCEPT ![r] = ResponseFor(outcome) ]
    /\ log' = [ log EXCEPT ![r] = LogFor(outcome) ]
    /\ pc' = [ pc EXCEPT ![r] = "done" ]
    /\ req' = [ req EXCEPT ![r] = NoRequest ]
    /\ UNCHANGED << config_vars, session_store, ctx, verify_answer, first_pass,
                    bearer_bound >>

\* the response is delivered; the slot is free for the next request
Finish(r) ==
    /\ pc[r] = "done"
    /\ pc' = [ pc EXCEPT ![r] = "idle" ]
    /\ ctx' = [ ctx EXCEPT ![r] = FreshContext ]
    /\ verify_answer' = [ verify_answer EXCEPT ![r] = NoAnswer ]
    /\ first_pass' = [ first_pass EXCEPT ![r] = NoFirstPass ]
    /\ call_next_calls' = [ call_next_calls EXCEPT ![r] = 0 ]
    /\ handler_outcome' = [ handler_outcome EXCEPT ![r] = NoOutcome ]
    /\ response' = [ response EXCEPT ![r] = NoOutcome ]
    /\ log' = [ log EXCEPT ![r] = NoLog ]
    /\ UNCHANGED << config_vars, session_store, req, bearer_bound >>

\* _process_request_for_auth is run once more on the same request, with a
\* fresh request-scoped state
Rerun(r) ==
    /\ pc[r] = "call_next"
    /\ ~first_pass[r].done
    /\ first_pass' = [ first_pass EXCEPT ![r] =
                         [ done |-> TRUE,
                           email |-> ctx[r].state.authenticated_user_email,
                           via |-> ctx[r].state.authenticated_via,
                           answer |-> verify_answer[r] ] ]
    /\ StartPass(r, req[r])
    /\ UNCHANGED bearer_bound

(***************************************************************************)
(* legacy_oauth2_callback, success path: the verified user's credentials   *)
(* are stored under session id "google-<state>", bound to the MCP session  *)
(* of the callback request.                                                *)
(***************************************************************************)
LegacySessionId == << "g", "o", "o", "g", "l", "e", "-", "s", "t" >>

legacy_oauth2_callback(verified_user_id, mcp_session_id) ==
    /\ phase = "running"
    /\ legacy_callback_registered
    /\ session_store' = store_session(session_store, verified_user_id,
                                      LegacySessionId, mcp_session_id)
    /\ UNCHANGED << config_vars, pc, req, ctx, verify_answer, first_pass,
                    bearer_bound, exit_vars >>

\* the whole of legacy_oauth2_callback.  A callback request arrives with an
\* error parameter, or without a code, or with a code while
\* check_client_secrets reports an error, or with a code and the secrets in
\* place; it carries the MCP session id of its state; handle_auth_callback
\* returns a verified user or raises; store_session succeeds or raises.
CallbackArrivals == { "error", "no_code", "no_client_secrets", "code" }

\* (a request that fails before or in handle_auth_callback has no verified
\* user and reaches no store_session)
CallbackRequests ==
    { [ arrives |-> a, verified_user_id |-> "raise", store_write |-> "ok",
        mcp_session_id |-> m ] :
          a \in CallbackArrivals, m \in McpSessionIds \cup { None } }
    \cup [ arrives : { "code" },
           verified_user_id : Users,
           store_write : { "ok", "raise" },
           mcp_session_id : McpSessionIds \cup { None } ]

ErrorResponse == [ kind |-> "error", user |-> None ]
ServerErrorResponse == [ kind |-> "server_error", user |-> None ]
SuccessResponse(user) == [ kind |-> "success", user |-> user ]

\* LegacyCallbackResult in which a failed store write fails the callback
LegacyCallbackResultStrict(store, request) ==
    IF request.arrives \in { "error", "no_code" }
    THEN [ store |-> store, response |-> ErrorResponse ]
    ELSE IF \/ request.arrives = "no_client_secrets"
            \/ request.verified_user_id = "raise"
            \/ request.store_write = "raise"
    THEN [ store |-> store, response |-> ServerErrorResponse ]
    ELSE [ store |-> store_session(store, request.verified_user_id,
                                   LegacySessionId, request.mcp_session_id),
           response |-> SuccessResponse(request.verified_user_id) ]

LegacyCallbackResult(store, request) ==
    IF request.arrives = "error"
    THEN [ store |-> store, response |-> ErrorResponse ]
    ELSE IF request.arrives = "no_code"
    THEN [ store |-> store, response |-> ErrorResponse ]
    ELSE IF request.arrives = "no_client_secrets"
    THEN [ store |-> store, response |-> ServerErrorResponse ]
    ELSE IF request.verified_user_id = "raise"
    THEN [ store |-> store, response |-> ServerErrorResponse ]    \* outer except
    ELSE [ store |-> IF request.store_write = "ok"
                     THEN store_session(store, request.verified_user_id,
                                        LegacySessionId, request.mcp_session_id)
                     ELSE store,    \* inner except: logged
           response |-> SuccessResponse(request.verified_user_id) ]

LegacyCallbackRecorded(request) ==
    /\ phase = "running"
    /\ legacy_callback_registered
    /\ callback_response' = LegacyCallbackResult(session_store, request).response
    /\ session_store' = LegacyCallbackResult(session_store, request).store
    /\ UNCHANGED << phase, transport_mode, auth_provider, legacy_callback_registered,
                    startup_vars, pc, req, ctx, verify_answer, first_pass,
                    bearer_bound, exit_vars, call_vars >>

\* the callback server main() starts under stdio completes an OAuth flow:
\* a Session Record is created for the user
CallbackSessionId == << "c", "b" >>

handle_auth_callback(verified_user_id, mcp_session_id) ==
    /\ phase = "running"
    /\ transport_mode = "stdio"
    /\ session_store' = store_session(session_store, verified_user_id,
                                      CallbackSessionId, mcp_session_id)
    /\ UNCHANGED << config_vars, pc, req, ctx, verify_answer, first_pass,
                    bearer_bound, exit_vars >>

(***************************************************************************)
(* Spec: requests are handled one at a time by r1, over every request the  *)
(* middleware can be given.  OAuth callbacks complete at any moment; one   *)
(* that completes between the end of a pass and the return of its handler  *)
(* changes nothing that request still reads, and is taken after it.        *)
(***************************************************************************)
NextMain == \E transport \in TransportModes, config \in OAuthConfigs : main(transport, config)
NextBegin == \E rq \in RequestsNow : Begin("r1", rq)
NextVerifyReturn == \E lookup \in Lookups : VerifyReturn("r1", lookup)
NextCallNextReturn == \E outcome \in HandlerOutcomes : CallNextReturn("r1", outcome)
NextFinish == Finish("r1")
NoPassPending == \A r \in Req : pc[r] # "call_next" /\ ~first_pass[r].done
NextLegacyCallback ==
    /\ NoPassPending
    /\ \E u \in Users, m \in McpSessionIds \cup { None } : legacy_oauth2_callback(u, m)
NextStdioCallback ==
    /\ NoPassPending
    /\ \E u \in Users, m \in McpSessionIds \cup { None } : handle_auth_callback(u, m)

Next ==
    \/ NextMain
    \/ NextBegin
    \/ NextVerifyReturn
    \/ NextCallNextReturn
    \/ NextFinish
    \/ NextLegacyCallback
    \/ NextStdioCallback

Spec == Init /\ [][Next]_vars

(***************************************************************************)
(* SpecTwice: as Spec, and a pass may be run a second time on the same     *)
(* request before the handler is called.                                   *)
(***************************************************************************)
NextRerun == Rerun("r1")

NextTwice ==
    \/ NextMain
    \/ NextBegin
    \/ NextVerifyReturn
    \/ NextCallNextReturn
    \/ NextFinish
    \/ NextLegacyCallback
    \/ NextStdioCallback
    \/ NextRerun

SpecTwice == Init /\ [][NextTwice]_vars

(***************************************************************************)
(* SpecHistory: as Spec, and bearer_bound remembers every (MCP session,    *)
(* user) pair a bearer-token resolution has produced.                      *)
(***************************************************************************)
VerifyReturnRecorded(r, lookup) ==
    /\ AwaitVerifyToken(r, lookup)
    /\ bearer_bound' =
          IF ctx'[r].state.authenticated_via = "bearer_token"
             /\ Truthy(ctx'[r].authenticated_user)
             /\ req[r].session_id \in McpSessionIds
          THEN [ bearer_bound EXCEPT ![req[r].session_id] =
                     [ all |-> @.all \cup { ctx'[r].authenticated_user },
                       last |-> ctx'[r].authenticated_user ] ]
          ELSE bearer_bound

NextVerifyReturnRecorded == \E lookup \in Lookups : VerifyReturnRecorded("r1", lookup)

NextHistory ==
    \/ NextMain
    \/ NextBegin
    \/ NextVerifyReturnRecorded
    \/ NextCallNextReturn
    \/ NextFinish
    \/ NextLegacyCallback
    \/ NextStdioCallback

SpecHistory == Init /\ [][NextHistory]_vars

(***************************************************************************)
(* SpecFaults: as Spec, and one of the reads or calls of the pass raises.  *)
(***************************************************************************)
FaultyRequestsNow ==
    { rq \in FaultyRequests :
        /\ (rq.headers.present => transport_mode = "streamable-http")
        /\ (rq.access_token # NoToken => auth_provider # None) }

NextBeginFaulty == \E rq \in FaultyRequestsNow : Begin("r1", rq)

NextFaults ==
    \/ NextMain
    \/ NextBeginFaulty
    \/ NextVerifyReturn
    \/ NextCallNextReturn
    \/ NextFinish
    \/ NextLegacyCallback
    \/ NextStdioCallback

SpecFaults == Init /\ [][NextFaults]_vars

(***************************************************************************)
(* SpecCallback: as Spec, with OAuth callbacks of every kind, their         *)
(* responses recorded.                                                     *)
(***************************************************************************)
NextLegacyCallbackRecorded == \E request \in CallbackRequests : LegacyCallbackRecorded(request)

NextCallback ==
    \/ NextMain
    \/ NextBegin
    \/ NextVerifyReturn
    \/ NextCallNextReturn
    \/ NextFinish
    \/ NoPassPending /\ NextLegacyCallbackRecorded
    \/ NextStdioCallback

SpecCallback == Init /\ [][NextCallback]_vars

(***************************************************************************)
(* SpecExpiry: as Spec, and the provider may leave expires_at out of the   *)
(* token it returns.                                                       *)
(***************************************************************************)
NextVerifyReturnAnyExpiry == \E lookup \in ExpiryLookups : VerifyReturn("r1", lookup)

NextExpiry ==
    \/ NextMain
    \/ NextBegin
    \/ NextVerifyReturnAnyExpiry
    \/ NextCallNextReturn
    \/ NextFinish
    \/ NextLegacyCallback
    \/ NextStdioCallback

SpecExpiry == Init /\ [][NextExpiry]_vars

(***************************************************************************)
(* SpecConcurrent: two requests are in flight at once, each with an opaque *)
(* bearer token of its own, and are interleaved at every await of the      *)
(* middleware (verify_token, call_next).                                   *)
(***************************************************************************)
ConcurrentRequestsNow(r) ==
    IF transport_mode = "streamable-http" /\ auth_provider # None
    THEN { [ fastmcp_context |-> TRUE,
             access_token |-> NoToken,
             headers |-> [ present |-> TRUE, authorization |-> BearerPrefix \o tok ],
             user_google_email |-> None,
             session_id |-> m,
             fault |-> None ] :
               tok \in OpaqueTokens \ { BearerToken(req[other]) : other \in Req \ { r } },
               m \in McpSessionIds \cup { None } }
    ELSE { }

NextBeginConcurrent == \E r \in Req : \E rq \in ConcurrentRequestsNow(r) : Begin(r, rq)
NextVerifyReturnConcurrent == \E r \in Req : \E lookup \in Lookups : VerifyReturn(r, lookup)
NextCallNextReturnConcurrent == \E r \in Req : CallNextReturn(r, Returned)
NextFinishConcurrent == \E r \in Req : Finish(r)

NextConcurrent ==
    \/ NextMain
    \/ NextBeginConcurrent
    \/ NextVerifyReturnConcurrent
    \/ NextCallNextReturnConcurrent
    \/ NextFinishConcurrent

SpecConcurrent == Init /\ [][NextConcurrent]_vars

(***************************************************************************)
(* SpecSessionTime: the server is started with any value of SESSION_TIME   *)
(* and get_session_time is called.                                         *)
(***************************************************************************)
server_vars == << phase, transport_mode, auth_provider, legacy_callback_registered,
                  session_store, pc, req, ctx, verify_answer, first_pass,
                  bearer_bound, exit_vars, callback_response, call_vars >>

InitSessionTime ==
    /\ phase = "init"
    /\ ServerAtStart
    /\ NoCalls
    /\ SESSION_TIME \in SessionTimeValues
    /\ session_time_cache = NoCache
    /\ tool_registry = TierAtStart
    /\ enabled_tools = OnlyTools(TierAtStart)
    /\ read_only_mode = FALSE

\* a call of get_session_time(): the cached value, or the body's on the
\* first call
CallGetSessionTime ==
    /\ session_time_cache' =
           IF session_time_cache.cached
           THEN session_time_cache
           ELSE [ cached |-> TRUE, value |-> get_session_time(SESSION_TIME) ]
    /\ UNCHANGED << server_vars, SESSION_TIME, tool_registry, enabled_tools,
                    read_only_mode >>

NextSessionTime == CallGetSessionTime

SpecSessionTime == InitSessionTime /\ [][NextSessionTime]_vars

(***************************************************************************)
(* SpecTools: main() has parsed its arguments and imported the tool        *)
(* modules, and filters the registry; the OAuth mode is read by            *)
(* is_oauth21_enabled().                                                   *)
(***************************************************************************)
InitTools ==
    /\ phase = "registering"
    /\ ServerAtStart
    /\ NoCalls
    /\ SESSION_TIME = Unset
    /\ session_time_cache = NoCache
    /\ tool_registry \in { { "start_google_auth" } \cup imported :
                               imported \in SUBSET ToolNames }
    /\ enabled_tools \in EnabledToolsSettings
    /\ read_only_mode \in BOOLEAN

FilterServerTools(oauth21_enabled) ==
    /\ phase = "registering"
    /\ phase' = "init"
    /\ tool_registry' = filter_server_tools(tool_registry, enabled_tools,
                                            oauth21_enabled, read_only_mode)
    /\ UNCHANGED << transport_mode, auth_provider, legacy_callback_registered,
                    session_store, pc, req, ctx, verify_answer, first_pass,
                    bearer_bound, exit_vars, SESSION_TIME, session_time_cache,
                    enabled_tools, read_only_mode, callback_response, call_vars >>

\* start_google_auth is called directly, whatever the registry holds
CallStartGoogleAuth(oauth21_enabled, external, user_google_email, secrets_error, flow) ==
    /\ phase = "init"
    /\ ~auth_tool_result.called
    /\ auth_tool_result' =
           [ called |-> TRUE, oauth21_enabled |-> oauth21_enabled ] @@
           start_google_auth(oauth21_enabled, external, user_google_email,
                             secrets_error, flow)
    /\ UNCHANGED << phase, transport_mode, auth_provider, legacy_callback_registered,
                    session_store, pc, req, ctx, verify_answer, first_pass,
                    bearer_bound, exit_vars, startup_vars, callback_response,
                    cli, sheets_call >>

NextFilterServerTools == \E oauth21_enabled \in BOOLEAN : FilterServerTools(oauth21_enabled)

NextCallStartGoogleAuth ==
    \E oauth21_enabled, external, secrets_error \in BOOLEAN :
        \E user_google_email \in Users \cup { None } :
            \E flow \in { "ok", "raise" } :
                CallStartGoogleAuth(oauth21_enabled, external, user_google_email,
                                    secrets_error, flow)

NextTools == NextFilterServerTools \/ NextCallStartGoogleAuth

SpecTools == InitTools /\ [][NextTools]_vars

(***************************************************************************)
(* SpecCli: main() is started with --cli and some arguments, and exits     *)
(* with the code handle_cli_mode returns.                                  *)
(***************************************************************************)
CliArgs == UNION { [ 1..n -> CliTokens ] : n \in 0..MaxCliArgs }

InitCli ==
    /\ phase = "init"
    /\ ServerAtStart
    /\ StartupDefaults
    /\ auth_tool_result = NoAuthCall
    /\ sheets_call = NoSheetsCall
    /\ cli \in { CliCall(args, stdin, behaviour) :
                     args \in CliArgs, stdin \in StdinContents,
                     behaviour \in ToolBehaviours }

handle_cli_mode ==
    /\ phase = "init"
    /\ ~cli.done
    /\ transport_mode' = "stdio"    \* set_transport_mode("stdio")
    /\ cli' = [ cli EXCEPT !.done = TRUE,
                           !.result = HandleCliModeResult(tool_registry, cli.args,
                                                          cli.stdin, cli.behaviour) ]
    /\ phase' = "exited"            \* sys.exit(exit_code)
    /\ UNCHANGED << auth_provider, legacy_callback_registered, session_store, pc, req,
                    ctx, verify_answer, first_pass, bearer_bound, exit_vars,
                    startup_vars, callback_response, auth_tool_result, sheets_call >>

NextCli == handle_cli_mode

SpecCli == InitCli /\ [][NextCli]_vars

(***************************************************************************)
(* SpecSheets: format_sheet_range is called once with some options.        *)
(***************************************************************************)
InitSheets ==
    /\ phase = "running"
    /\ ServerAtStart
    /\ StartupDefaults
    /\ auth_tool_result = NoAuthCall
    /\ cli = NoCli
    /\ sheets_call \in { SheetsCall(o, sheets) :
                             o \in FormatOptions, sheets \in SheetsAnswers }

FormatSheetRange ==
    /\ phase = "running"
    /\ ~sheets_call.done
    /\ sheets_call' = [ sheets_call EXCEPT
                          !.done = TRUE,
                          !.result = format_sheet_range_impl(sheets_call.options,
                                                             sheets_call.sheets) ]
    /\ UNCHANGED << phase, transport_mode, auth_provider, legacy_callback_registered,
                    session_store, pc, req, ctx, verify_answer, first_pass,
                    bearer_bound, exit_vars, startup_vars, callback_response,
                    auth_tool_result, cli >>

NextSheets == FormatSheetRange

SpecSheets == InitSheets /\ [][NextSheets]_vars

(***************************************************************************)
(* Vocabulary of the properties.                                           *)
(***************************************************************************)
Range(seq) == { seq[i] : i \in 1..Len(seq) }

\* the pass of request r is over and its handler has not been called yet
PassDone(r) == pc[r] = "call_next"
InPass(r) == pc[r] \in { "verify", "call_next" }

Resolved(r) == Truthy(ctx[r].authenticated_user)
Via(r) == ctx[r].state.authenticated_via
Email(r) == ctx[r].state.authenticated_user_email
WasCalled(r, what) == what \in Range(ctx[r].calls)
WasWritten(r, key) == key \in Range(ctx[r].written)

HasBearerHeader(rq) ==
    rq.headers.present /\ StartsWith(rq.headers.authorization, BearerPrefix)
HasOpaqueBearer(rq) == HasBearerHeader(rq) /\ StartsWith(BearerToken(rq), Ya29Prefix)
HasNonOpaqueBearer(rq) == HasBearerHeader(rq) /\ ~StartsWith(BearerToken(rq), Ya29Prefix)

\* the request was resolved from the platform-validated token alone
FromPlatformToken(r) ==
    /\ Resolved(r)
    /\ Via(r) = "fastmcp_oauth" /\ ctx[r].auth_via = "fastmcp_oauth"
    /\ Email(r) = TokenEmail(req[r].access_token)
    /\ ctx[r].state.access_token = req[r].access_token
    /\ ~WasCalled(r, "get_http_headers")
    /\ ~WasCalled(r, "verify_token")
    /\ ~WasCalled(r, "ensure_session_from_access_token")

(***************************************************************************)
(* C1.  Precedence of the platform-validated token.                        *)
(***************************************************************************)
\* C1 as stated: whenever get_access_token() returns a token and the request
\* carries an Authorization: Bearer header, the pass resolves from the
\* platform token (fastmcp_oauth, that token's email) and the header is
\* neither verified nor used.
C1_AnyPlatformTokenWins ==
    \A r \in Req :
        (InPass(r) /\ req[r].access_token # NoToken /\ HasBearerHeader(req[r]))
            => (PassDone(r) /\ FromPlatformToken(r))

\* C1 amended: whenever get_access_token() returns a token that carries a
\* non-empty email (as attribute or in its claims) and the request carries an
\* Authorization: Bearer header, the pass resolves from the platform token
\* (fastmcp_oauth, that token's email) and the header is neither read,
\* verified nor used.
C1_PlatformTokenWithEmailWins ==
    \A r \in Req :
        (InPass(r) /\ Truthy(TokenEmail(req[r].access_token)) /\ HasBearerHeader(req[r]))
            => (PassDone(r) /\ FromPlatformToken(r))

\* a platform token with an email beat a verifiable opaque bearer token of
\* another account
C1_Witness ==
    \E r \in Req :
        /\ PassDone(r)
        /\ auth_provider # None
        /\ Truthy(TokenEmail(req[r].access_token))
        /\ HasOpaqueBearer(req[r])
        /\ OwnerOf(BearerToken(req[r])) # TokenEmail(req[r].access_token)
        /\ FromPlatformToken(r)

(***************************************************************************)
(* C2.  Fail-closed on an unverified JWT.                                  *)
(***************************************************************************)
\* C2: a request whose Bearer token does not start with "ya29." never has
\* the provider asked to verify it, never ends with authenticated_via =
\* "bearer_token", and no state key comes from that token: access_token is
\* unset or the platform token, token_type is unset, and the resolved email,
\* if any, is the platform token's or that of a stored session.
C2_UnverifiedJwtFailsClosed ==
    \A r \in Req :
        (InPass(r) /\ HasNonOpaqueBearer(req[r])) =>
            /\ PassDone(r)
            /\ ~WasCalled(r, "verify_token")
            /\ ~WasCalled(r, "ensure_session_from_access_token")
            /\ Via(r) # "bearer_token" /\ ctx[r].auth_via # "bearer_token"
            /\ ~WasWritten(r, "token_type")
            /\ ctx[r].state.access_token \in { NoToken, req[r].access_token }
            /\ \A key \in { "authenticated_user_email", "user_email", "username" } :
                   \/ ctx[r].state[key] = None
                   \/ ctx[r].state[key] = TokenEmail(req[r].access_token)
                   \/ has_session(session_store, ctx[r].state[key])

\* a JWT naming account 1 was presented while a provider is configured and
\* account 1 has a stored session, and the request stayed unresolved
C2_Witness ==
    \E r \in Req :
        /\ PassDone(r)
        /\ auth_provider # None
        /\ req[r].access_token = NoToken
        /\ BearerToken(req[r]) = JwtToken(1)
        /\ has_session(session_store, EmailOf[1])
        /\ ~Resolved(r)
        /\ ctx[r].written = << >>

(***************************************************************************)
(* C3.  Single-session convenience boundary.                               *)
(***************************************************************************)
\* C3: under stdio, with no platform token, no bearer header and no user
\* named, the pass ends resolved to the one stored session's email with
\* source stdio_single_session when exactly one session is stored; no pass
\* ends with source stdio_single_session when zero or several are stored.
C3_SingleSessionBoundary ==
    \A r \in Req :
        PassDone(r) =>
            /\ ( /\ transport_mode = "stdio"
                 /\ req[r].fastmcp_context
                 /\ req[r].access_token = NoToken
                 /\ ~HasBearerHeader(req[r])
                 /\ req[r].user_google_email = None
                 /\ Cardinality(StoredUsers(session_store)) = 1 )
               => ( /\ Resolved(r)
                    /\ Via(r) = "stdio_single_session"
                    /\ ctx[r].auth_via = "stdio_single_session"
                    /\ StoredUsers(session_store) = { Email(r) }
                    /\ ctx[r].authenticated_user = Email(r) )
            /\ ( Via(r) = "stdio_single_session" \/ ctx[r].auth_via = "stdio_single_session" )
               => ( /\ transport_mode = "stdio"
                    /\ Cardinality(StoredUsers(session_store)) = 1 )

\* a stdio request with nothing but the call itself was resolved to the only
\* stored session
C3_Witness ==
    \E r \in Req :
        /\ PassDone(r)
        /\ transport_mode = "stdio"
        /\ req[r].access_token = NoToken
        /\ ~req[r].headers.present
        /\ req[r].user_google_email = None
        /\ Cardinality(StoredUsers(session_store)) = 1
        /\ Via(r) = "stdio_single_session"

(***************************************************************************)
(* C4.  Opaque-token round trip.                                           *)
(***************************************************************************)
\* the provider verified the bearer token of the request and found an email
VerifiedWithEmail(r) ==
    /\ req[r].access_token = NoToken
    /\ HasOpaqueBearer(req[r])
    /\ auth_provider # None
    /\ verify_answer[r].token # NoToken
    /\ Truthy(TokenEmail(verify_answer[r].token))

SynthesizedSessionKey(rq) ==
    GoogleOauthPrefix \o TakeFirst(BearerToken(rq), SessionKeyPrefixLen)

\* C4: for either provider, a request without platform token whose ya29.
\* bearer token is verified with a non-empty email e ends resolved to e via
\* bearer_token, and the Session Store holds an entry for e under the key
\* "google_oauth_" + the first 8 characters of the token.
C4_OpaqueTokenRoundTrip ==
    \A r \in Req :
        (PassDone(r) /\ VerifiedWithEmail(r)) =>
            LET e == TokenEmail(verify_answer[r].token)
            IN  /\ Resolved(r)
                /\ Via(r) = "bearer_token"
                /\ Email(r) = e
                /\ e = OwnerOf(BearerToken(req[r]))
                /\ has_session(session_store, e)
                /\ session_store.sessions[e].session_id = SynthesizedSessionKey(req[r])

(***************************************************************************)
(* C5.  Provider-error containment.                                        *)
(***************************************************************************)
VerificationFailed(r) ==
    /\ verify_answer[r].asked
    /\ verify_answer[r].raised \/ verify_answer[r].token = NoToken

\* C5: when verifying a ya29. bearer token raises or returns nothing, the
\* pass does not raise and writes nothing for the token; it asks for the
\* transport mode and goes through the fallbacks, so that it ends resolved by
\* the MCP session binding when the session is bound and unresolved
\* otherwise, and call_next is invoked once and its outcome handed back.
C5_ProviderErrorContained ==
    \A r \in Req :
        (pc[r] \in { "call_next", "done" } /\ VerificationFailed(r)) =>
            /\ ctx[r].error = NoException
            /\ WasCalled(r, "get_transport_mode")
            /\ ~WasCalled(r, "ensure_session_from_access_token")
            /\ ~WasWritten(r, "access_token") /\ ~WasWritten(r, "token_type")
            /\ Via(r) \in { None, "stdio_session", "stdio_single_session",
                            "mcp_session_binding" }
            /\ ctx[r].auth_via = Via(r)
            /\ Resolved(r) <=> Via(r) # None
            /\ ~Resolved(r) => ctx[r].written = << >>
            /\ PassDone(r) =>
                  /\ call_next_calls[r] = 0
                  /\ LET bound_user == get_user_by_mcp_session(session_store,
                                                               req[r].session_id)
                     IN  (transport_mode # "stdio" /\ Truthy(bound_user)) =>
                             (Via(r) = "mcp_session_binding" /\ Email(r) = bound_user)
            /\ pc[r] = "done" =>
                  /\ call_next_calls[r] = 1
                  /\ response[r] = handler_outcome[r]

\* the provider raised, and the request was resolved by the binding of its
\* MCP session and handed to call_next
C5_Witness ==
    \E r \in Req :
        /\ pc[r] = "done"
        /\ verify_answer[r].raised
        /\ Via(r) = "mcp_session_binding"
        /\ call_next_calls[r] = 1
        /\ response[r] = Returned

(***************************************************************************)
(* C6.  Session binding persistence (SpecHistory).                         *)
(***************************************************************************)
\* rq carries MCP session id m and neither platform token nor headers
CarriesOnlySession(rq, m) ==
    /\ rq.fastmcp_context
    /\ rq.access_token = NoToken
    /\ ~rq.headers.present
    /\ rq.session_id = m

\* C6 as stated: once a request carrying MCP session id m was resolved via
\* bearer_token to e, every later request carrying only m resolves via
\* mcp_session_binding to e.
C6_EveryEarlierUserPersists ==
    \A r \in Req : \A m \in McpSessionIds :
        (PassDone(r) /\ CarriesOnlySession(req[r], m)) =>
            \A e \in bearer_bound[m].all :
                Via(r) = "mcp_session_binding" /\ Email(r) = e

\* C6 amended: a bearer_token resolution to e of a request carrying MCP
\* session id m binds m to e in the Session Store, and a later request
\* carrying only m resolves via mcp_session_binding to the user of the
\* latest bearer_token resolution on m: to e as long as no bearer_token
\* resolution for another user has carried m since.
C6_LatestBindingPersists ==
    \A r \in Req :
        PassDone(r) =>
            /\ ( /\ Via(r) = "bearer_token" /\ Resolved(r)
                 /\ req[r].session_id \in McpSessionIds )
               => ( /\ get_user_by_mcp_session(session_store, req[r].session_id) = Email(r)
                    /\ bearer_bound[req[r].session_id].last = Email(r) )
            /\ \A m \in McpSessionIds :
                 ( /\ CarriesOnlySession(req[r], m)
                   /\ bearer_bound[m].all # { } )
                 => ( /\ Resolved(r)
                      /\ Via(r) = "mcp_session_binding"
                      /\ Email(r) = bearer_bound[m].last
                      /\ ctx[r].authenticated_user = bearer_bound[m].last )

\* a request carrying only the session id was resolved to the second of two
\* users that presented bearer tokens on that session
C6_Witness ==
    \E r \in Req : \E m \in McpSessionIds :
        /\ PassDone(r)
        /\ CarriesOnlySession(req[r], m)
        /\ Cardinality(bearer_bound[m].all) = 2
        /\ Via(r) = "mcp_session_binding"
        /\ Email(r) = bearer_bound[m].last

(***************************************************************************)
(* C7.  Idempotence (SpecTwice).                                           *)
(***************************************************************************)
\* the second pass on the same request is over, and the provider, if asked
\* in both passes, answered the same in both
SecondPassDone(r) ==
    /\ PassDone(r)
    /\ first_pass[r].done
    /\ (verify_answer[r].asked /\ first_pass[r].answer.asked)
          => verify_answer[r] = first_pass[r].answer

\* C7: two passes in a row on the same request, with the sessions stored
\* before the first and the same answer of the provider, end with the same
\* authenticated_user_email and the same authenticated_via, also when the
\* first pass wrote a session to the Session Store.
C7_Idempotent ==
    \A r \in Req :
        SecondPassDone(r) =>
            /\ Email(r) = first_pass[r].email
            /\ Via(r) = first_pass[r].via

\* both passes resolved by bearer token, and the first wrote the session that
\* binds the MCP session of the request
C7_Witness ==
    \E r \in Req :
        /\ SecondPassDone(r)
        /\ first_pass[r].via = "bearer_token"
        /\ Truthy(first_pass[r].email)
        /\ req[r].session_id \in McpSessionIds
        /\ get_user_by_mcp_session(session_store, req[r].session_id) = first_pass[r].email
        /\ Via(r) = "bearer_token"

(***************************************************************************)
(* C8.  The middleware never rejects a call itself.                        *)
(***************************************************************************)
\* C8: whatever the pass found, resolved or not, FastMCP context or not,
\* call_next is not invoked before the pass is over, is invoked exactly once
\* by the time the middleware is done, and the middleware hands back what
\* call_next returned or raised.
C8_CallNextOnceAndResultReturned ==
    \A r \in Req :
        /\ pc[r] \in { "idle", "verify", "call_next" } =>
              (call_next_calls[r] = 0 /\ response[r] = NoOutcome)
        /\ pc[r] = "done" =>
              /\ call_next_calls[r] = 1
              /\ handler_outcome[r] \in HandlerOutcomes
              /\ response[r] = handler_outcome[r]

\* a call without FastMCP context went to call_next and its result came back
C8_Witness ==
    \E r \in Req :
        /\ pc[r] = "done"
        /\ ctx[r].calls = << >>
        /\ ~Resolved(r)
        /\ call_next_calls[r] = 1
        /\ response[r] = Returned

(***************************************************************************)
(* C9.  End to end, unauthenticated.                                       *)
(***************************************************************************)
\* the errors a handler raises when it finds no credentials
CredentialNotFound(e) ==
    e.type = "GoogleAuthenticationError" \/ e.access_denied

\* a stdio pass without stored sessions, platform token or headers is over
StdioNothingStored(r) ==
    /\ PassDone(r)
    /\ transport_mode = "stdio"
    /\ StoredUsers(session_store) = { }
    /\ req[r].fastmcp_context
    /\ req[r].access_token = NoToken
    /\ ~req[r].headers.present

\* C9: under stdio with no stored session and no header the pass ends
\* unresolved with nothing written, and when the handler then raises a
\* credential-not-found error the middleware logs it at info level without
\* stack trace and raises that same exception, having called call_next once.
C9_UnauthenticatedEndToEnd ==
    [][ \A r \in Req :
          StdioNothingStored(r) =>
              /\ ~Resolved(r)
              /\ ctx[r].written = << >>
              /\ ( /\ pc'[r] = "done"
                   /\ handler_outcome'[r].kind = "raised"
                   /\ CredentialNotFound(handler_outcome'[r].exc) )
                 => ( /\ log'[r] = [ level |-> "info", exc_info |-> FALSE ]
                      /\ response'[r] = Raised(handler_outcome'[r].exc)
                      /\ call_next_calls'[r] = 1
                      /\ ctx'[r] = ctx[r] )
      ]_vars

\* the handler of an unresolved stdio call raised "Access denied: Cannot
\* retrieve credentials", logged at info and raised again
C9_Witness ==
    \E r \in Req :
        /\ pc[r] = "done"
        /\ transport_mode = "stdio"
        /\ StoredUsers(session_store) = { }
        /\ WasCalled(r, "get_single_user_email")
        /\ ~Resolved(r)
        /\ response[r].kind = "raised"
        /\ response[r].exc.access_denied
        /\ log[r].level = "info"

(***************************************************************************)
(* C10.  A token without an email.                                         *)
(***************************************************************************)
\* C10: when the platform token or the verified bearer token carries no
\* non-empty email, the step writes nothing: no access_token, no
\* authenticated_via, no authenticated_user_email, no user_email / username,
\* no token_type, and no Session Store write is attempted.
C10_TokenWithoutEmailWritesNothing ==
    \A r \in Req :
        PassDone(r) =>
            /\ (req[r].access_token # NoToken /\ ~Truthy(TokenEmail(req[r].access_token)))
                 => ( /\ ctx[r].state.access_token # req[r].access_token
                      /\ Via(r) # "fastmcp_oauth" )
            /\ (verify_answer[r].token # NoToken /\ ~Truthy(TokenEmail(verify_answer[r].token)))
                 => ( /\ ~WasWritten(r, "access_token")
                      /\ ~WasWritten(r, "token_type")
                      /\ ~WasWritten(r, "user_email")
                      /\ ~WasWritten(r, "username")
                      /\ Via(r) # "bearer_token"
                      /\ ~WasCalled(r, "ensure_session_from_access_token") )


(***************************************************************************)
(* C11.  Resolved is sticky, state is written by one path.                 *)
(***************************************************************************)
Count(seq, x) == Cardinality({ i \in 1..Len(seq) : seq[i] = x })

\* C11: within one pass every state key, authenticated_user_email and
\* authenticated_via in particular, is set at most once (at most one step
\* writes), and a resolved pass keeps the email and source of the step that
\* accepted.
C11_WrittenByOnePath ==
    \A r \in Req :
        InPass(r) =>
            /\ \A key \in StateKeys : Count(ctx[r].written, key) <= 1
            /\ Resolved(r) =>
                  (Email(r) = ctx[r].authenticated_user /\ Via(r) = ctx[r].auth_via)

(***************************************************************************)
(* C12.  Resolution never raises.                                          *)
(***************************************************************************)
\* C12: whichever read or call of the pass raises, the exception is caught
\* inside the pass: the pass ends without an error and call_next is invoked,
\* so a handled request has had its one call_next and its response is the
\* downstream handler's outcome.
C12_ResolutionNeverRaises ==
    \A r \in Req :
        /\ ctx[r].error = NoException
        /\ pc[r] = "done" =>
              /\ call_next_calls[r] = 1
              /\ response[r] = ResponseFor(handler_outcome[r])

(***************************************************************************)
(* C13.  Strict precedence chain.                                          *)
(***************************************************************************)
StepOrder == << "fastmcp_oauth", "bearer_token", "stdio_session",
                "stdio_single_session", "mcp_session_binding" >>

\* the acceptance condition of each step, read off the request, the
\* provider's answer and the Session Store
AcceptanceHolds(r, source) ==
    CASE source = "fastmcp_oauth" ->
            Truthy(TokenEmail(req[r].access_token))
      [] source = "bearer_token" ->
            /\ HasOpaqueBearer(req[r]) /\ auth_provider # None
            /\ verify_answer[r].token # NoToken
            /\ Truthy(TokenEmail(verify_answer[r].token))
      [] source = "stdio_session" ->
            /\ transport_mode = "stdio"
            /\ Truthy(req[r].user_google_email)
            /\ has_session(session_store, req[r].user_google_email)
      [] source = "stdio_single_session" ->
            /\ transport_mode = "stdio"
            /\ Truthy(get_single_user_email(session_store))
      [] source = "mcp_session_binding" ->
            Truthy(get_user_by_mcp_session(session_store, req[r].session_id))

FirstAccepting(r) ==
    IF \E i \in 1..Len(StepOrder) : AcceptanceHolds(r, StepOrder[i])
    THEN StepOrder[CHOOSE i \in 1..Len(StepOrder) :
                      /\ AcceptanceHolds(r, StepOrder[i])
                      /\ \A j \in 1..(i - 1) : ~AcceptanceHolds(r, StepOrder[j])]
    ELSE None

\* the collaborators in the order of the chain, and the one each step asks last
CallOrder == << "get_access_token", "get_http_headers", "verify_token",
                "ensure_session_from_access_token", "get_transport_mode",
                "has_session", "get_single_user_email", "get_user_by_mcp_session" >>
CallRank(what) == CHOOSE i \in 1..Len(CallOrder) : CallOrder[i] = what
LastCallOf(source) ==
    CASE source = "fastmcp_oauth"        -> "get_access_token"
      [] source = "bearer_token"         -> "ensure_session_from_access_token"
      [] source = "stdio_session"        -> "has_session"
      [] source = "stdio_single_session" -> "get_single_user_email"
      [] source = "mcp_session_binding"  -> "get_user_by_mcp_session"

C14_StatePopulated ==
    \A r \in Req :
        (PassDone(r) /\ Resolved(r)) =>
            /\ Email(r) = ctx[r].authenticated_user
            /\ Via(r) = ctx[r].auth_via
            /\ \E i \in 1..Len(StepOrder) : Via(r) = StepOrder[i]
            /\ ctx[r].state.auth_provider_type # None
            /\ Via(r) \in { "fastmcp_oauth", "bearer_token" } =>
                  ctx[r].state.access_token # NoToken

(***************************************************************************)
(* C15.  The token verifier is fail-closed for opaque tokens.              *)
(***************************************************************************)
\* C15: whatever the userinfo lookup does, ExternalOAuthProvider.verify_token
\* on a "ya29." token never raises; it returns a token exactly when the
\* lookup succeeded with an email, and then the token's email and
\* claims.email are that email; otherwise it returns None.
C15_VerifierFailsClosed ==
    [][ \A r \in Req : \A lookup \in Lookups :
          ( /\ auth_provider = "ExternalOAuthProvider"
            /\ StartsWith(BearerToken(req[r]), Ya29Prefix)
            /\ VerifyReturn(r, lookup) )
          => /\ verify_answer'[r].asked
             /\ ~verify_answer'[r].raised
             /\ IF lookup = "ok"
                THEN /\ verify_answer'[r].token # NoToken
                     /\ verify_answer'[r].token.token = BearerToken(req[r])
                     /\ Truthy(verify_answer'[r].token.email)
                     /\ verify_answer'[r].token.email = OwnerOf(BearerToken(req[r]))
                     /\ verify_answer'[r].token.claims_email = OwnerOf(BearerToken(req[r]))
                ELSE verify_answer'[r].token = NoToken
      ]_vars

\* the external provider has verified an opaque token and returned it with
\* the email of the userinfo lookup
C15_Witness ==
    \E r \in Req :
        /\ auth_provider = "ExternalOAuthProvider"
        /\ PassDone(r)
        /\ verify_answer[r].asked
        /\ verify_answer[r].token # NoToken
        /\ verify_answer[r].token.email = OwnerOf(BearerToken(req[r]))

(***************************************************************************)
(* C16.  Legacy OAuth 2.0 mode.                                            *)
(***************************************************************************)
\* C16: with no auth provider configured, a bearer header of any shape is
\* never verified, the header step writes no state and no Session Store
\* entry, and a resolved pass has one of the session sources.
C16_LegacyReliesOnSessionStore ==
    \A r \in Req :
        (auth_provider = None /\ InPass(r)) =>
            /\ PassDone(r)
            /\ ~WasCalled(r, "verify_token")
            /\ ~WasCalled(r, "ensure_session_from_access_token")
            /\ verify_answer[r] = NoAnswer
            /\ ~WasWritten(r, "access_token") /\ ~WasWritten(r, "token_type")
            /\ Via(r) \in { None, "stdio_session", "stdio_single_session",
                            "mcp_session_binding" }
            /\ Resolved(r) <=> Via(r) # None
            /\ ~Resolved(r) => ctx[r].written = << >>

\* legacy mode over HTTP: an opaque bearer token was presented and the
\* request was resolved by the binding of its MCP session instead
C16_Witness ==
    \E r \in Req :
        /\ PassDone(r)
        /\ auth_provider = None
        /\ legacy_callback_registered
        /\ HasOpaqueBearer(req[r])
        /\ Via(r) = "mcp_session_binding"
        /\ Email(r) # OwnerOf(BearerToken(req[r]))

(***************************************************************************)
(* C17.  Credentials not configured: fallback to the legacy configuration. *)
(***************************************************************************)
\* C17: started over HTTP with OAuth 2.1 enabled and no credentials, the
\* server does not crash and is left as in the OAuth 2.0 branch: no auth
\* provider, and the legacy /oauth2callback route registered.
C17_UnconfiguredFallsBackToLegacy ==
    [][ main("streamable-http", "unconfigured") =>
          /\ phase' = "running"
          /\ auth_provider' = None
          /\ legacy_callback_registered'
      ]_vars

(***************************************************************************)
(* C18.  Configuration failure is fatal at startup.                        *)
(***************************************************************************)
\* C18 as stated: credentials that are not configured and a provider that
\* cannot be initialised both make configure_server_for_http raise, so that
\* main exits and the server never runs.
C18_MisconfigurationIsFatal ==
    [][ \A config \in { "unconfigured", "broken" } :
          main("streamable-http", config) => phase' = "exited"
      ]_vars

\* C18: a provider that cannot be initialised makes configure_server_for_http
\* raise, main exits and nothing is ever handled after that; credentials
\* that are not configured are not fatal, the server runs without a provider.
C18_InitFailureIsFatal ==
    [][ /\ phase # "exited"
        /\ main("streamable-http", "broken") =>
              (phase' = "exited" /\ \A r \in Req : pc'[r] = "idle")
        /\ main("streamable-http", "unconfigured") =>
              (phase' = "running" /\ auth_provider' = None)
      ]_vars

\* startup failed: the process has exited without serving
C18_Witness ==
    /\ phase = "exited"
    /\ transport_mode = "streamable-http"
    /\ \A r \in Req : pc[r] = "idle"

(***************************************************************************)
(* C19.  The session lifetime is bounded.                                  *)
(***************************************************************************)
SessionTimeIs(str) == SESSION_TIME = EnvValue(str)

\* C19: whatever SESSION_TIME holds, get_session_time returns an integer in
\* 1..86400: the value itself when it is an integer in that range, 1 when
\* it is below 1, 86400 when it is above 86400, and 3600 when the variable
\* is unset, empty or not an integer.
C19_SessionTimeBounded ==
    session_time_cache.cached =>
        LET returned == session_time_cache.value
            raw == getenv(SESSION_TIME, NoStr)
            parsed == int(raw)
        IN  /\ returned \in 1..MAX_SESSION_TIME
            /\ (raw = NoStr \/ ~parsed.ok) => returned = DEFAULT_SESSION_TIME
            /\ (raw # NoStr /\ parsed.ok) =>
                  /\ parsed.value \in 1..MAX_SESSION_TIME => returned = parsed.value
                  /\ parsed.value < 1 => returned = 1
                  /\ parsed.value > MAX_SESSION_TIME => returned = MAX_SESSION_TIME
            /\ SESSION_TIME = Unset => returned = 3600
            /\ SessionTimeIs(<< "x" >>) => returned = 3600
            /\ SessionTimeIs(<< "1", "x" >>) => returned = 3600
            /\ SessionTimeIs(<< "-" >>) => returned = 3600
            /\ SessionTimeIs(<< "8", "6", "4", "0", "0", ".", "0" >>) => returned = 3600
            /\ SessionTimeIs(<< "0" >>) => returned = 1
            /\ SessionTimeIs(<< "-", "1" >>) => returned = 1
            /\ SessionTimeIs(<< "-", "8", "6", "4", "0", "1" >>) => returned = 1
            /\ SessionTimeIs(<< "1" >>) => returned = 1
            /\ SessionTimeIs(<< "9", "9", "9" >>) => returned = 999
            /\ SessionTimeIs(<< "1", "_", "9" >>) => returned = 19
            /\ SessionTimeIs(<< " ", "9", " " >>) => returned = 9
            /\ SessionTimeIs(<< "3", "6", "0", "0" >>) => returned = 3600
            /\ SessionTimeIs(<< "8", "6", "3", "9", "9" >>) => returned = 86399
            /\ SessionTimeIs(<< "8", "6", "4", "0", "0" >>) => returned = 86400
            /\ SessionTimeIs(<< "8", "6", "4", "0", "1" >>) => returned = 86400
            /\ SessionTimeIs(<< "1", "0", "0", "_", "0", "0", "0" >>) => returned = 86400

\* a value above the limit was read and the limit returned
C19_Witness ==
    /\ SessionTimeIs(<< "8", "6", "4", "0", "1" >>)
    /\ session_time_cache.cached
    /\ session_time_cache.value = MAX_SESSION_TIME

(***************************************************************************)
(* C20.  Read-only mode disables every tool that needs write permissions.  *)
(***************************************************************************)
\* C20: once filter_server_tools has run with read-only mode on, every tool
\* left in the registry requires read-only scopes only, whatever the tier
\* setting and the OAuth mode were.
C20_ReadOnlyLeavesNoWriteTool ==
    (phase = "init" /\ read_only_mode) =>
        \A tool_name \in tool_registry : RequiredScopes(tool_name) \subseteq ReadOnlyScopes

(***************************************************************************)
(* C23.  The single-session fallback and a named user.                     *)
(***************************************************************************)
NamesUser(rq) == Truthy(rq.user_google_email)

\* C23: under stdio a call that names a target user is never resolved by
\* the single-session fallback, and so never to another email than the one
\* it named.
C23_NamedUserNeverGuessed ==
    \A r \in Req :
        (PassDone(r) /\ transport_mode = "stdio" /\ NamesUser(req[r])) =>
            /\ Via(r) # "stdio_single_session"
            /\ Resolved(r) => Email(r) = req[r].user_google_email

(***************************************************************************)
(* C24.  No speculative state writes.                                      *)
(***************************************************************************)
\* C24: a pass that has ended without a source, or that failed inside a
\* step, has written no authentication key to the request-scoped state: a
\* key is written only once the step that owns it has succeeded, its
\* session store write included.
C24_NoSpeculativeWrites ==
    \A r \in Req :
        (pc[r] \in { "call_next", "done" } /\ ~Resolved(r)) =>
            /\ ctx[r].written = << >>
            /\ \A key \in StateKeys : ctx[r].state[key] = EmptyState[key]

(***************************************************************************)
(* C27.  Bearer-token normalisation.                                       *)
(***************************************************************************)
Verified(r) == verify_answer[r].asked /\ verify_answer[r].token # NoToken

\* C27: a bare AccessToken returned for a ya29. token is wrapped: session id
\* "google_oauth_" + the first 8 characters of the token, the verified
\* email, the provider's expires_at when it supplied one and now +
\* get_session_time() otherwise; a WorkspaceAccessToken is kept unchanged;
\* either way the token put in state is the one given to the session store
\* with the request's MCP session id.
C27_BearerTokenNormalised ==
    \A r \in Req :
        (PassDone(r) /\ Verified(r)) =>
            LET verified_auth == verify_answer[r].token
                user_email == TokenEmail(verified_auth)
                kept == ctx[r].state.access_token
            IN  /\ WasWritten(r, "access_token")
                /\ kept.kind = "WorkspaceAccessToken"
                /\ verified_auth.kind = "WorkspaceAccessToken" => kept = verified_auth
                /\ verified_auth.kind = "AccessToken" =>
                      /\ kept.token = BearerToken(req[r])
                      /\ kept.session_id = SynthesizedSessionKey(req[r])
                      /\ kept.email = user_email
                      /\ kept.claims_email = verified_auth.claims_email
                      /\ kept.expires_at = IF verified_auth.expires_at = None
                                           THEN NowPlusSessionTime
                                           ELSE verified_auth.expires_at
                /\ Truthy(user_email) =>
                      /\ session_store.sessions[user_email]
                            = [ present |-> TRUE, session_id |-> kept.session_id ]
                      /\ req[r].session_id # None =>
                            session_store.mcp[req[r].session_id] = user_email

\* the provider supplied an expires_at on a bare token and the wrapper kept it
C27_Witness ==
    \E r \in Req :
        /\ PassDone(r)
        /\ Verified(r)
        /\ verify_answer[r].token.kind = "AccessToken"
        /\ verify_answer[r].token.expires_at = ProviderExpiresAt
        /\ ctx[r].state.access_token.expires_at = ProviderExpiresAt
        /\ req[r].session_id # None

(***************************************************************************)
(* C25.  The stdio fallbacks are confined to stdio transport.              *)
(***************************************************************************)
StdioSources == { "stdio_session", "stdio_single_session" }

\* C25: when the transport is not stdio, a pass never asks has_session or
\* get_single_user_email and never ends with a stdio source, whatever is
\* stored and whoever is named; of the session sources only
\* mcp_session_binding is left.
C25_StdioFallbacksConfined ==
    \A r \in Req :
        (InPass(r) /\ transport_mode # "stdio") =>
            /\ ~WasCalled(r, "has_session")
            /\ ~WasCalled(r, "get_single_user_email")
            /\ Via(r) \notin StdioSources
            /\ ctx[r].auth_via \notin StdioSources
            /\ (PassDone(r) /\ Resolved(r)) =>
                  Via(r) \in { "fastmcp_oauth", "bearer_token", "mcp_session_binding" }

\* over HTTP a call named a user who has the only session stored, and the
\* pass ended without a source
C25_Witness ==
    \E r \in Req :
        /\ PassDone(r)
        /\ transport_mode = "streamable-http"
        /\ NamesUser(req[r])
        /\ StoredUsers(session_store) = { req[r].user_google_email }
        /\ ~Resolved(r)
        /\ WasCalled(r, "get_transport_mode")

(***************************************************************************)
(* C26.  The stdio session of a named user.                                *)
(***************************************************************************)
\* C26: under stdio, when steps 1 and 2 found nothing and the call names a
\* user u, the pass is resolved to u with source stdio_session exactly when
\* the store has a session for u, and then neither get_single_user_email
\* nor get_user_by_mcp_session is asked.
C26_NamedUserStdioSession ==
    \A r \in Req :
        ( /\ PassDone(r)
          /\ transport_mode = "stdio"
          /\ NamesUser(req[r])
          /\ ~WasWritten(r, "access_token") ) =>
            LET u == req[r].user_google_email
            IN  /\ WasCalled(r, "has_session")
                /\ (Resolved(r) /\ Email(r) = u /\ Via(r) = "stdio_session")
                       <=> has_session(session_store, u)
                /\ has_session(session_store, u) =>
                      /\ ctx[r].authenticated_user = u
                      /\ ~WasCalled(r, "get_single_user_email")
                      /\ ~WasCalled(r, "get_user_by_mcp_session")

\* a named user with a session was resolved while another session and an MCP
\* session id were at hand
C26_Witness ==
    \E r \in Req :
        /\ PassDone(r)
        /\ transport_mode = "stdio"
        /\ NamesUser(req[r])
        /\ has_session(session_store, req[r].user_google_email)
        /\ Via(r) = "stdio_session"
        /\ req[r].session_id # None

(***************************************************************************)
(* C28.  Session records are created on successful callback completion.    *)
(***************************************************************************)
CallbackFails(request) ==
    \/ request.arrives # "code"
    \/ request.verified_user_id = "raise"

\* C28: legacy_oauth2_callback writes a session record only once
\* handle_auth_callback has returned a verified user; with an error
\* parameter, without a code, with the client-secrets check failing or with
\* handle_auth_callback raising, nothing is written and an error response is
\* returned; a store write that fails leaves the success response.
C28_RecordOnlyOnSuccessfulCallback ==
    [][ (pc' = pc /\ phase' = phase /\ legacy_callback_registered) =>
        \A request \in CallbackRequests :
          LegacyCallbackRecorded(request) =>
              /\ CallbackFails(request) =>
                    /\ session_store' = session_store
                    /\ callback_response'.kind \in { "error", "server_error" }
              /\ ~CallbackFails(request) =>
                    /\ callback_response' = SuccessResponse(request.verified_user_id)
                    /\ request.store_write = "ok" =>
                          /\ has_session(session_store', request.verified_user_id)
                          /\ session_store' = store_session(session_store,
                                                   request.verified_user_id,
                                                   LegacySessionId,
                                                   request.mcp_session_id)
                    /\ request.store_write = "raise" => session_store' = session_store
              /\ session_store' # session_store =>
                    /\ callback_response'.kind = "success"
                    /\ has_session(session_store', callback_response'.user)
      ]_vars

\* a callback succeeded although its store write failed: the user was told
\* so and has no session record
C28_Witness ==
    /\ callback_response.kind = "success"
    /\ ~has_session(session_store, callback_response.user)

(***************************************************************************)
(* C21: start_google_auth is disabled when OAuth 2.1 is enabled:           *)
(* filter_server_tools run under OAuth 2.1 leaves a registry without       *)
(* start_google_auth, with or without a tier setting, and a direct call    *)
(* under OAuth 2.1 returns one of the 'disabled' messages, raises nothing, *)
(* and has called neither check_client_secrets nor start_auth_flow.        *)
(***************************************************************************)
C21_StartGoogleAuthDisabled ==
    [][ /\ FilterServerTools(TRUE) => "start_google_auth" \notin tool_registry'
        /\ (auth_tool_result' # auth_tool_result /\ auth_tool_result'.oauth21_enabled) =>
               /\ auth_tool_result'.message \in DisabledMessages
               /\ auth_tool_result'.raised = None
               /\ auth_tool_result'.calls = << >>
      ]_vars

\* no tier, not read-only: only the OAuth 2.1 filter can have removed the
\* tool, and it has been called directly under OAuth 2.1
C21_Witness ==
    /\ phase = "init"
    /\ enabled_tools = AllToolsEnabled
    /\ ~read_only_mode
    /\ "start_google_auth" \notin tool_registry
    /\ auth_tool_result.called
    /\ auth_tool_result.oauth21_enabled
    /\ auth_tool_result.message \in DisabledMessages

(***************************************************************************)
(* C22: the exit code of the command line mode tells whether the command   *)
(* ended in an error: handle_cli_mode returns 1 when the arguments or      *)
(* stdin are not JSON, the tool is unknown, the tool's arguments do not    *)
(* bind, or the tool raises, and 0 otherwise.                              *)
(***************************************************************************)
EndedInError(c) == c.result.raised # None \/ c.result.ran.caught # None

C22_ExitCodeTellsErrors ==
    cli.done => (cli.result.exit_code = (IF EndedInError(cli) THEN 1 ELSE 0))

(***************************************************************************)
(* C30: format_sheet_range validates before it acts.                       *)
(***************************************************************************)
ValidatedOptions ==
    { << "wrap_strategy", "wrapStrategy", allowed_wrap_strategies >>,
      << "horizontal_alignment", "horizontalAlignment", allowed_h_alignments >>,
      << "vertical_alignment", "verticalAlignment", allowed_v_alignments >>,
      << "number_format_type", "numberFormat", allowed_number_formats >> }

\* a valid value, in whatever letter case, is carried upper-cased by the
\* batchUpdate request, which is issued when all options are valid and the
\* API answers
CarriesUpperCased(call) ==
    /\ \A v \in ValidatedOptions :
         ( /\ Provided(call.options[v[1]])
           /\ upper(call.options[v[1]].value) \in v[3]
           /\ "batchUpdate" \in Range(call.result.api_calls) ) =>
               /\ call.result.user_entered_format[v[2]].given
               /\ call.result.user_entered_format[v[2]].value \in v[3]
               /\ call.result.user_entered_format[v[2]].value
                      = upper(call.options[v[1]].value)
    /\ ( /\ \A v \in ValidatedOptions :
              Provided(call.options[v[1]]) => upper(call.options[v[1]].value) \in v[3]
         /\ \/ \E v \in ValidatedOptions : Provided(call.options[v[1]])
            \/ Provided(call.options.background_color)
            \/ Provided(call.options.text_color)
            \/ call.options.bold # "None"
            \/ call.options.italic # "None"
            \/ call.options.font_size # "None"
         /\ ~parse_hex_color(call.options.background_color).raised
         /\ ~parse_hex_color(call.options.text_color).raised
         /\ call.sheets = "ok" ) =>
             call.result.api_calls = << "get", "batchUpdate" >>

RaisedBeforeAnyRequest(call) ==
    call.result.raised = "UserInputError" /\ call.result.api_calls = << >>

\* C30 as stated: a call with no formatting option at all, or with any
\* value of a validated option outside its allowed set, raises
\* UserInputError before any request to the Sheets API.
C30_EveryInvalidValueRejected ==
    sheets_call.done =>
        /\ ( \/ sheets_call.options = NoOptions
             \/ \E v \in ValidatedOptions :
                  /\ sheets_call.options[v[1]].given
                  /\ upper(sheets_call.options[v[1]].value) \notin v[3] ) =>
               RaisedBeforeAnyRequest(sheets_call)
        /\ CarriesUpperCased(sheets_call)

\* C30, amended: a call with no formatting option at all, or with a
\* non-empty value of a validated option outside its allowed set, raises
\* UserInputError before any request to the Sheets API; an empty string is
\* taken as an option not given.
C30_NonEmptyInvalidValueRejected ==
    sheets_call.done =>
        /\ ( \/ sheets_call.options = NoOptions
             \/ \E v \in ValidatedOptions :
                  /\ Provided(sheets_call.options[v[1]])
                  /\ upper(sheets_call.options[v[1]].value) \notin v[3] ) =>
               RaisedBeforeAnyRequest(sheets_call)
        /\ CarriesUpperCased(sheets_call)

\* an invalid horizontal alignment next to a valid wrap strategy was
\* rejected before any request
C30_Witness ==
    /\ sheets_call.done
    /\ sheets_call.options.horizontal_alignment = Given(<< "m", "i", "d", "d", "l", "e" >>)
    /\ sheets_call.options.wrap_strategy = Given(<< "w", "r", "a", "p" >>)
    /\ sheets_call.sheets = "ok"
    /\ RaisedBeforeAnyRequest(sheets_call)

(***************************************************************************)
(* C29.  Concurrent requests do not leak identity.                         *)
(***************************************************************************)
\* C29: of two requests in flight at once with different opaque bearer
\* tokens, interleaved at verify_token and call_next, each one whose token
\* was verified carries in its own state the email and the access_token of
\* the token it presented, and neither those of the other request.
C29_NoIdentityLeak ==
    \A r \in Req :
        (pc[r] = "call_next" /\ Verified(r) /\ Truthy(TokenEmail(verify_answer[r].token))) =>
            /\ Via(r) = "bearer_token"
            /\ Email(r) = OwnerOf(BearerToken(req[r]))
            /\ ctx[r].state.access_token.token = BearerToken(req[r])
            /\ TokenEmail(ctx[r].state.access_token) = OwnerOf(BearerToken(req[r]))
            /\ \A other \in Req \ { r } :
                 InPass(other) =>
                     /\ Email(r) # OwnerOf(BearerToken(req[other]))
                     /\ ctx[r].state.access_token.token # BearerToken(req[other])

\* both requests are past the pass on the same MCP session, each resolved
\* to the owner of its own token
C29_Witness ==
    /\ pc["r1"] = "call_next" /\ pc["r2"] = "call_next"
    /\ req["r1"].session_id = req["r2"].session_id
    /\ req["r1"].session_id # None
    /\ Via("r1") = "bearer_token" /\ Via("r2") = "bearer_token"
    /\ Email("r1") = OwnerOf(BearerToken(req["r1"]))
    /\ Email("r2") = OwnerOf(BearerToken(req["r2"]))
    /\ Email("r1") # Email("r2")

====
